---------------------------- MODULE Spec2Model ----------------------------
(***************************************************************************)
(* HealthSphere ML API: the four route groups (chat, activity-detect,      *)
(* food-recognition, risk-forecast) and the services behind them.          *)
(*                                                                         *)
(* A route handler runs alone on the event loop between two awaits that    *)
(* really suspend, and each such stretch is one action.  The handlers of   *)
(* the two upload routes suspend at `await image.read()` when the upload   *)
(* was rolled over to disk; no other handler holds an await that suspends, *)
(* and it runs from its start to its response in one action.  The only     *)
(* shared mutable state is ChatService.conversations.  `last` holds the    *)
(* HTTP exchange of the most recent response (request, status, body or     *)
(* detail, and the service calls the route made).  `tasks` holds the       *)
(* handlers the event loop has accepted and not yet finished, each with    *)
(* its position.                                                           *)
(*                                                                         *)
(* Python floats are IEEE-754 doubles and are computed as such wherever    *)
(* the code computes with them (the activity features, the calorie         *)
(* estimate, the body mass index, the fallback risk score, the aggregate   *)
(* health score).  Numbers the code only stores, compares with literals or *)
(* passes on are kept as integers in a fixed unit named where they are     *)
(* defined.                                                                *)
(***************************************************************************)
EXTENDS Integers, Sequences, FiniteSets, TLC

VARIABLES
    conversations,  \* ChatService.conversations: id -> conversation record
    issued,         \* the ids uuid.uuid4() has returned so far
    journal,        \* history variable: per open id, the completed process_message calls
    now,            \* the wall clock read by datetime.now()
    model,          \* ActivityDetectionService.model: "fitted" or "None"
    risk_models,    \* RiskForecastingService.risk_models: the keys present
    risk_scalers,   \* RiskForecastingService.scalers: the keys present
    risk_fitted,    \* the risk types whose scaler was fitted at startup
    food_db,        \* FoodRecognitionService.food_database
    tasks,          \* the handler coroutines the event loop holds, each with its position
    last            \* the most recent HTTP exchange

vars ==
    <<conversations, issued, journal, now, model, risk_models, risk_scalers, risk_fitted,
      food_db, tasks, last>>

chatVars == <<conversations, issued, journal>>
startupVars == <<model, risk_models, risk_scalers, risk_fitted, food_db>>

-----------------------------------------------------------------------------
(* Bounds of the model *)

\* completed process_message calls kept in the store, over all conversations
MaxCalls == 2

-----------------------------------------------------------------------------
(* Generic helpers *)

Range(s) == {s[i] : i \in 1..Len(s)}

\* Python: kw in s, on character sequences
Contains(s, kw) ==
    \E i \in 1..(Len(s) - Len(kw) + 1) : SubSeq(s, i, i + Len(kw) - 1) = kw

\* Python: s[:n]
Prefix(s, n) == SubSeq(s, 1, IF Len(s) < n THEN Len(s) ELSE n)

-----------------------------------------------------------------------------
(* Chat: inputs *)

\* Python None, as a value of the same sort as the ids
None == "<None>"

\* the values uuid.uuid4() can return
ConvIds == {"c1", "c2"}

\* the order in which the ids are handed out
ConvLess(c, d) == c = "c1" /\ d = "c2"

\* an id a client made up: uuid4 never returns it
BogusId == "bogus"

Users == {"u1"}

\* the clock values datetime.now() can return
Times == {0, 1}

msg_workout == <<"W", "o", "r", "k", "o", "u", "t">>
msg_meal == <<"m", "y", " ", "m", "e", "a", "l">>
msg_hi == <<"h", "i">>

Messages == {msg_workout, msg_hi}

\* context tags a client sends
InputContexts == {"health_coaching", "mental_wellness"}

-----------------------------------------------------------------------------
(* Chat: ChatService *)

contexts ==
    [health_coaching |->
        [description |-> "General health and wellness coaching",
         personality |-> "supportive and knowledgeable",
         expertise |-> <<"nutrition", "exercise", "sleep", "stress_management">>],
     diabetes_management |->
        [description |-> "Specialized diabetes care and management",
         personality |-> "clinical and precise",
         expertise |-> <<"blood_glucose", "medication", "diet", "complications">>],
     cardiovascular_health |->
        [description |-> "Heart health and cardiovascular disease prevention",
         personality |-> "encouraging and evidence-based",
         expertise |-> <<"blood_pressure", "cholesterol", "exercise", "diet">>],
     mental_wellness |->
        [description |-> "Mental health and emotional well-being support",
         personality |-> "empathetic and understanding",
         expertise |-> <<"stress", "anxiety", "depression", "mindfulness">>]]

\* str.lower() on the characters the inputs use
LowerChar(ch) ==
    CASE ch = "W" -> "w"
      [] ch = "M" -> "m"
      [] ch = "H" -> "h"
      [] ch = "D" -> "d"
      [] OTHER -> ch

lower(s) == [i \in 1..Len(s) |-> LowerChar(s[i])]

kw_workout == <<"w", "o", "r", "k", "o", "u", "t">>
kw_exercise == <<"e", "x", "e", "r", "c", "i", "s", "e">>
kw_diet == <<"d", "i", "e", "t">>
kw_food == <<"f", "o", "o", "d">>
kw_meal == <<"m", "e", "a", "l">>
kw_blood_pressure == <<"b", "l", "o", "o", "d", " ", "p", "r", "e", "s", "s", "u", "r", "e">>
kw_heart == <<"h", "e", "a", "r", "t">>
kw_sleep == <<"s", "l", "e", "e", "p">>
kw_insomnia == <<"i", "n", "s", "o", "m", "n", "i", "a">>
kw_stress == <<"s", "t", "r", "e", "s", "s">>
kw_anxiety == <<"a", "n", "x", "i", "e", "t", "y">>
kw_weight == <<"w", "e", "i", "g", "h", "t">>
kw_lose == <<"l", "o", "s", "e">>
kw_gain == <<"g", "a", "i", "n">>
kw_diabetes == <<"d", "i", "a", "b", "e", "t", "e", "s">>

\* the bucket choice with the diabetes test moved to the front
response_bucket_diabetes_first(message) ==
    IF Contains(message, kw_diabetes) THEN "diabetes"
    ELSE IF Contains(message, kw_workout) \/ Contains(message, kw_exercise) THEN "workout"
    ELSE IF Contains(message, kw_diet) \/ Contains(message, kw_food)
            \/ Contains(message, kw_meal) THEN "diet"
    ELSE IF Contains(message, kw_blood_pressure) \/ Contains(message, kw_heart) THEN "heart"
    ELSE IF Contains(message, kw_sleep) \/ Contains(message, kw_insomnia) THEN "sleep"
    ELSE IF Contains(message, kw_stress) \/ Contains(message, kw_anxiety) THEN "stress"
    ELSE IF Contains(message, kw_weight) \/ Contains(message, kw_lose)
            \/ Contains(message, kw_gain) THEN "weight"
    ELSE "default"

\* The bucket whose canned replies _generate_contextual_response draws from.
response_bucket(message) ==
    IF Contains(message, kw_workout) \/ Contains(message, kw_exercise) THEN "workout"
    ELSE IF Contains(message, kw_diet) \/ Contains(message, kw_food)
            \/ Contains(message, kw_meal) THEN "diet"
    ELSE IF Contains(message, kw_blood_pressure) \/ Contains(message, kw_heart) THEN "heart"
    ELSE IF Contains(message, kw_sleep) \/ Contains(message, kw_insomnia) THEN "sleep"
    ELSE IF Contains(message, kw_stress) \/ Contains(message, kw_anxiety) THEN "stress"
    ELSE IF Contains(message, kw_weight) \/ Contains(message, kw_lose)
            \/ Contains(message, kw_gain) THEN "weight"
    ELSE IF Contains(message, kw_diabetes) THEN "diabetes"
    ELSE "default"

\* random.choice(responses) returns one of the three canned texts of the bucket;
\* a reply text is represented by the bucket it was drawn from.
generate_contextual_response(message, context_info) ==
    <<"<canned reply>", response_bucket(message)>>

generate_suggestions(message, context) ==
    LET suggestions ==
            IF Contains(message, kw_workout) \/ Contains(message, kw_exercise) THEN
                <<"Create a personalized workout plan",
                  "Learn about different exercise types",
                  "Track your fitness progress">>
            ELSE IF Contains(message, kw_diet) \/ Contains(message, kw_food) THEN
                <<"Get nutrition analysis for your meals",
                  "Learn about healthy food choices",
                  "Create a meal planning strategy">>
            ELSE IF Contains(message, kw_sleep) THEN
                <<"Improve your sleep hygiene",
                  "Track your sleep patterns",
                  "Learn relaxation techniques">>
            ELSE IF Contains(message, kw_stress) THEN
                <<"Practice mindfulness exercises",
                  "Learn stress management techniques",
                  "Create a self-care routine">>
            ELSE
                <<"Set health goals",
                  "Track your progress",
                  "Get personalized recommendations">>
    IN  Prefix(suggestions, 3)

generate_response(message, context, conversation_id) ==
    LET message_lower == lower(message)
        context_info == IF context \in DOMAIN contexts
                        THEN contexts[context]
                        ELSE contexts["health_coaching"]
    IN  [message |-> generate_contextual_response(message_lower, context_info),
         suggestions |-> generate_suggestions(message_lower, context),
         context |-> [context_type |-> context,
                      personality |-> context_info.personality,
                      expertise |-> context_info.expertise]]

\* The store after start_conversation has put a new conversation under id.
\* Every datetime.now() of one handler run reads the same clock value t.
service_start_conversation(convs, id, user_id, context, t) ==
    [c \in DOMAIN convs \cup {id} |->
        IF c = id
        THEN [user_id |-> user_id,
              context |-> context,
              messages |-> <<>>,
              created_at |-> t,
              last_activity |-> t]
        ELSE convs[c]]

\* _store_message with the new entry put in front of the log
store_message_front(convs, conversation_id, message, is_user, user_id, t) ==
    IF conversation_id \notin DOMAIN convs
    THEN convs
    ELSE [convs EXCEPT
            ![conversation_id].messages =
                <<[message |-> message,
                   is_user |-> is_user,
                   timestamp |-> t,
                   user_id |-> user_id]>> \o @,
            ![conversation_id].last_activity = t]

\* _store_message that opens a conversation for an id that is not in the store
store_message_create(convs, conversation_id, message, is_user, user_id, t) ==
    LET entry == [message |-> message,
                  is_user |-> is_user,
                  timestamp |-> t,
                  user_id |-> user_id]
    IN  [c \in DOMAIN convs \cup {conversation_id} |->
            IF c # conversation_id THEN convs[c]
            ELSE IF c \in DOMAIN convs
            THEN [convs[c] EXCEPT !.messages = Append(@, entry), !.last_activity = t]
            ELSE [user_id |-> user_id,
                  context |-> "health_coaching",
                  messages |-> <<entry>>,
                  created_at |-> t,
                  last_activity |-> t]]

\* The store after _store_message.
store_message(convs, conversation_id, message, is_user, user_id, t) ==
    IF conversation_id \notin DOMAIN convs
    THEN convs
    ELSE [convs EXCEPT
            ![conversation_id].messages =
                Append(@, [message |-> message,
                           is_user |-> is_user,
                           timestamp |-> t,
                           user_id |-> user_id]),
            ![conversation_id].last_activity = t]

\* process_message that also records, in the conversation, the context it was
\* called with
process_message_setcontext(convs, message, user_id, context, conversation_id, fresh, t) ==
    LET started == conversation_id \in {None, ""}
        cid == IF started THEN fresh ELSE conversation_id
        c0 == IF started
              THEN service_start_conversation(convs, fresh, user_id, context, t)
              ELSE convs
        c1 == store_message(c0, cid, message, TRUE, user_id, t)
        response == generate_response(message, context, cid)
        c2 == store_message(c1, cid, response.message, FALSE, user_id, t)
    IN  [store |-> IF cid \in DOMAIN c2 THEN [c2 EXCEPT ![cid].context = context] ELSE c2,
         started |-> started,
         result |-> [message |-> response.message,
                     conversation_id |-> cid,
                     suggestions |-> response.suggestions,
                     context |-> response.context]]

\* process_message: the store it leaves and the dictionary it returns.
\* fresh is the id uuid4 returns if a conversation has to be started.
process_message(convs, message, user_id, context, conversation_id, fresh, t) ==
    LET started == conversation_id \in {None, ""}
        cid == IF started THEN fresh ELSE conversation_id
        c0 == IF started
              THEN service_start_conversation(convs, fresh, user_id, context, t)
              ELSE convs
        c1 == store_message(c0, cid, message, TRUE, user_id, t)
        response == generate_response(message, context, cid)
        c2 == store_message(c1, cid, response.message, FALSE, user_id, t)
    IN  [store |-> c2,
         started |-> started,
         result |-> [message |-> response.message,
                     conversation_id |-> cid,
                     suggestions |-> response.suggestions,
                     context |-> response.context]]

service_get_conversation_history(convs, conversation_id) ==
    IF conversation_id \notin DOMAIN convs
    THEN [raised |-> TRUE, error |-> "Conversation not found"]
    ELSE [raised |-> FALSE, value |-> convs[conversation_id].messages]

\* delete_conversation that drops every conversation of the owner of the id
service_delete_conversation_owner(convs, conversation_id) ==
    IF conversation_id \in DOMAIN convs
    THEN [c \in {d \in DOMAIN convs : convs[d].user_id # convs[conversation_id].user_id}
            |-> convs[c]]
    ELSE convs

service_delete_conversation(convs, conversation_id) ==
    IF conversation_id \in DOMAIN convs
    THEN [c \in DOMAIN convs \ {conversation_id} |-> convs[c]]
    ELSE convs

service_get_available_contexts ==
    [contexts |-> contexts, total_count |-> Cardinality(DOMAIN contexts)]

\* The ids uuid.uuid4() may return next: it never returns a value twice.  Ids
\* are interchangeable, so the unused ones are handed out in a fixed order.
uuid4 ==
    IF ConvIds \ issued = {} THEN {}
    ELSE {CHOOSE c \in ConvIds \ issued : \A d \in ConvIds \ issued : c = d \/ ConvLess(c, d)}

\* completed process_message calls whose messages are in the store
StoredCalls ==
    LET RECURSIVE Sum(_)
        Sum(S) == IF S = {} THEN 0
                  ELSE LET c == CHOOSE x \in S : TRUE
                       IN  Len(conversations[c].messages) + Sum(S \ {c})
    IN  Sum(DOMAIN conversations) \div 2

-----------------------------------------------------------------------------
(* Exchanges and calls *)

\* a direct call of a service function: its arguments and the value it returned
Returned(fn, args, value) ==
    [route |-> fn, request |-> args, status |-> 0, value |-> value]

\* a direct call of a service function that raised
Raised(fn, args, error) ==
    [route |-> fn, request |-> args, status |-> 0, error |-> error]

\* what a direct call leaves in last
outcome_of(fn, args, r) ==
    IF r.raised THEN Raised(fn, args, r.error) ELSE Returned(fn, args, r.value)

-----------------------------------------------------------------------------
(* Chat: routes (routes/chat.py) *)

\* a handler returned body: FastAPI answers 200 with it
Ok(route, request, body) ==
    [route |-> route, request |-> request, status |-> 200, body |-> body]

\* a handler raised HTTPException(status_code, detail)
Failed(route, request, status_code, detail) ==
    [route |-> route, request |-> request, status |-> status_code, detail |-> detail]

\* POST /chat/
chat(request) ==
    /\ StoredCalls < MaxCalls
    /\ \E fresh \in (IF request.conversation_id \in {None, ""} THEN uuid4 ELSE {None}) :
        LET r == process_message(conversations, request.message, request.user_id,
                                 request.context, request.conversation_id,
                                 fresh, now)
            cid == r.result.conversation_id
        IN  /\ conversations' = r.store
            /\ issued' = IF r.started THEN issued \cup {fresh} ELSE issued
            /\ journal' =
                 IF cid \in DOMAIN r.store
                 THEN [journal EXCEPT ![cid] =
                         Append(IF r.started THEN <<>> ELSE @,
                                [message |-> request.message,
                                 reply |-> r.result.message])]
                 ELSE journal
            /\ last' = Ok("POST /chat/", request,
                          [success |-> TRUE,
                           data |-> [response |-> r.result.message,
                                     conversation_id |-> cid,
                                     suggestions |-> r.result.suggestions,
                                     context |-> r.result.context]])
    /\ UNCHANGED <<now, startupVars, tasks>>

\* POST /chat/conversation
start_conversation(user_id, context) ==
    /\ \E fresh \in uuid4 :
        /\ conversations' =
             service_start_conversation(conversations, fresh, user_id, context, now)
        /\ issued' = issued \cup {fresh}
        /\ journal' = [journal EXCEPT ![fresh] = <<>>]
        /\ last' = Ok("POST /chat/conversation",
                      [user_id |-> user_id, context |-> context],
                      [success |-> TRUE,
                       data |-> [conversation_id |-> fresh, context |-> context]])
    /\ UNCHANGED <<now, startupVars, tasks>>

\* GET /chat/conversation/{conversation_id}
get_conversation_history(conversation_id) ==
    LET r == service_get_conversation_history(conversations, conversation_id)
        request == [conversation_id |-> conversation_id]
    IN  /\ last' =
             IF r.raised
             THEN Failed("GET /chat/conversation/{id}", request, 500,
                         <<"Failed to get conversation history: ", r.error>>)
             ELSE Ok("GET /chat/conversation/{id}", request,
                     [success |-> TRUE,
                      data |-> [conversation_id |-> conversation_id,
                                messages |-> r.value]])
        /\ UNCHANGED <<chatVars, now, startupVars, tasks>>

\* DELETE /chat/conversation/{conversation_id}
delete_conversation(conversation_id) ==
    /\ conversations' = service_delete_conversation(conversations, conversation_id)
    /\ last' = Ok("DELETE /chat/conversation/{id}",
                  [conversation_id |-> conversation_id],
                  [success |-> TRUE, message |-> "Conversation deleted successfully"])
    /\ UNCHANGED <<issued, journal, now, startupVars, tasks>>

\* GET /chat/contexts
get_available_contexts ==
    /\ last' = Ok("GET /chat/contexts", [none |-> TRUE],
                  [success |-> TRUE, data |-> service_get_available_contexts])
    /\ UNCHANGED <<chatVars, now, startupVars, tasks>>

\* time passes between two requests
Tick ==
    /\ now + 1 \in Times
    /\ now' = now + 1
    /\ UNCHANGED <<chatVars, startupVars, tasks, last>>

\* the conversation ids a client can send: ones it was given, or made up
ClientIds == issued \cup {BogusId}

ChatRequests ==
    [message : Messages, user_id : Users, context : InputContexts,
     conversation_id : ConvIds \cup {None, "", BogusId}]

ChatNext ==
    \/ \E request \in ChatRequests :
         /\ request.conversation_id \in ClientIds \cup {None, ""}
         /\ chat(request)
    \/ \E user_id \in Users, context \in InputContexts :
         start_conversation(user_id, context)
    \/ \E id \in ClientIds : get_conversation_history(id)
    \/ \E id \in ClientIds : delete_conversation(id)
    \/ get_available_contexts
    \/ Tick

-----------------------------------------------------------------------------
(* Chat: requests handled concurrently on the event loop *)

\* handler coroutines the event loop holds at once
MaxTasks == 2

\* Every handler the event loop holds is a task of its own.  Two requests
\* with the same content give two tasks, which are told apart by their copy
\* number: handlers that agree in everything else are the copies 1, 2, ... of
\* one another.
same_handler(t, u) == [t EXCEPT !.copy = 0] = [u EXCEPT !.copy = 0]

\* the tasks of the event loop after it has taken on the handler t
hold(held, t) ==
    held \cup {[t EXCEPT !.copy = 1 + Cardinality({u \in held : same_handler(t, u)})]}

\* Equal handlers are interchangeable, so the copy the loop resumes among
\* them is written as the one with the highest number.
resumable(held, task) == \A u \in held : same_handler(task, u) => u.copy <= task.copy

\* The await expressions in the body of each coroutine of ChatService, in the
\* order of the body: process_message awaits start_conversation (line 63) and
\* _generate_response (line 69); the bodies of start_conversation (lines
\* 85-98), _generate_response (lines 134-156) and delete_conversation (lines
\* 107-111) hold none, they call plain functions only.
awaits_of(coroutine) ==
    CASE coroutine = "process_message" -> <<"start_conversation", "_generate_response">>
      [] coroutine = "start_conversation" -> <<>>
      [] coroutine = "_generate_response" -> <<>>
      [] coroutine = "delete_conversation" -> <<>>

\* the awaitables that hand control back to the event loop when awaited
LoopAwaitables == {"asyncio.sleep", "asyncio.Future", "loop.run_in_executor"}

\* _generate_response with a pause in its body
suspends_in_generate_response(coroutine) == coroutine = "_generate_response"

\* Whether awaiting the coroutine hands control back to the event loop before
\* it returns: `await` on a coroutine runs its body in the caller's task, and
\* the task is suspended only where that body awaits something that is not
\* ready.  A body without awaits runs to its return.
suspends(coroutine) ==
    \E i \in 1..Len(awaits_of(coroutine)) : awaits_of(coroutine)[i] \in LoopAwaitables

\* process_message resumed by the event loop from the position of the task: it
\* runs to the next await that suspends, or to its return.  fresh is the id
\* uuid4 returns if the conversation is started in this run.
process_message_resume(convs, task, fresh, t) ==
    LET request == task.request
        starts == request.conversation_id \in {None, ""}
        opening == task.pc \in {"accepted", "start_conversation"}
        cid == IF ~opening THEN task.conversation_id
               ELSE IF starts THEN fresh ELSE request.conversation_id
        c0 == IF opening /\ starts
              THEN service_start_conversation(convs, fresh, request.user_id,
                                              request.context, t)
              ELSE convs
        c1 == IF opening
              THEN store_message(c0, cid, request.message, TRUE, request.user_id, t)
              ELSE convs
        response == generate_response(request.message, request.context, cid)
        c2 == store_message(c1, cid, response.message, FALSE, request.user_id, t)
    IN  IF task.pc = "accepted" /\ starts /\ suspends("start_conversation")
        THEN [store |-> convs, started |-> FALSE, pc |-> "start_conversation",
              conversation_id |-> task.conversation_id]
        ELSE IF opening /\ suspends("_generate_response")
        THEN [store |-> c1, started |-> starts, pc |-> "_generate_response",
              conversation_id |-> cid]
        ELSE [store |-> c2, started |-> opening /\ starts, pc |-> "returned",
              conversation_id |-> cid,
              result |-> [message |-> response.message,
                          conversation_id |-> cid,
                          suggestions |-> response.suggestions,
                          context |-> response.context]]

\* the chat requests of the concurrent clients
LoopRequests == {request \in ChatRequests : request.context = "health_coaching"}

\* a POST /chat/ request arrives: its handler is scheduled
accept_chat(request) ==
    /\ Cardinality(tasks) < MaxTasks
    /\ tasks' = hold(tasks, [route |-> "POST /chat/", copy |-> 0,
                             request |-> request,
                             pc |-> "accepted",
                             conversation_id |-> request.conversation_id])
    /\ UNCHANGED <<chatVars, now, startupVars, last>>

\* a DELETE /chat/conversation/{id} request arrives: its handler is scheduled
accept_delete(conversation_id) ==
    /\ Cardinality(tasks) < MaxTasks
    /\ tasks' = hold(tasks, [route |-> "DELETE /chat/conversation/{id}",
                             copy |-> 0,
                             request |-> [conversation_id |-> conversation_id],
                             pc |-> "accepted",
                             conversation_id |-> conversation_id])
    /\ UNCHANGED <<chatVars, now, startupVars, last>>

\* the event loop resumes a POST /chat/ handler
resume_chat(task) ==
    /\ task.route = "POST /chat/"
    /\ resumable(tasks, task)
    /\ StoredCalls < MaxCalls
    /\ \E fresh \in (IF /\ task.pc \in {"accepted", "start_conversation"}
                        /\ task.request.conversation_id \in {None, ""}
                     THEN uuid4 ELSE {None}) :
        LET r == process_message_resume(conversations, task, fresh, now)
            cid == r.conversation_id
            opened == IF r.started THEN [journal EXCEPT ![cid] = <<>>] ELSE journal
        IN  /\ conversations' = r.store
            /\ issued' = IF r.started THEN issued \cup {fresh} ELSE issued
            /\ journal' =
                 IF r.pc = "returned" /\ cid \in DOMAIN r.store
                 THEN [opened EXCEPT ![cid] =
                         Append(@, [message |-> task.request.message,
                                    reply |-> r.result.message])]
                 ELSE opened
            /\ tasks' =
                 IF r.pc = "returned" THEN tasks \ {task}
                 ELSE hold(tasks \ {task},
                           [task EXCEPT !.pc = r.pc, !.conversation_id = cid])
            /\ last' =
                 IF r.pc = "returned"
                 THEN Ok("POST /chat/", task.request,
                         [success |-> TRUE,
                          data |-> [response |-> r.result.message,
                                    conversation_id |-> cid,
                                    suggestions |-> r.result.suggestions,
                                    context |-> r.result.context]])
                 ELSE last
    /\ UNCHANGED <<now, startupVars>>

\* the event loop resumes a DELETE handler: delete_conversation holds no await
resume_delete(task) ==
    /\ task.route = "DELETE /chat/conversation/{id}"
    /\ resumable(tasks, task)
    /\ conversations' =
         service_delete_conversation(conversations, task.request.conversation_id)
    /\ tasks' = tasks \ {task}
    /\ last' = Ok("DELETE /chat/conversation/{id}", task.request,
                  [success |-> TRUE, message |-> "Conversation deleted successfully"])
    /\ UNCHANGED <<issued, journal, now, startupVars>>

LoopNext ==
    \/ \E request \in LoopRequests :
         /\ request.conversation_id \in issued \cup {None}
         /\ accept_chat(request)
    \/ \E id \in issued : accept_delete(id)
    \/ \E task \in tasks : resume_chat(task)
    \/ \E task \in tasks : resume_delete(task)

-----------------------------------------------------------------------------
(* Chat: the reply generation called directly *)

\* messages holding one keyword each, several keywords, a keyword inside a
\* longer word, upper-case letters, and no keyword
ReplyMessages ==
    {kw_workout, kw_exercise, kw_diet, kw_food, kw_meal, kw_blood_pressure, kw_heart,
     kw_sleep, kw_insomnia, kw_stress, kw_anxiety, kw_weight, kw_lose, kw_gain,
     kw_diabetes, msg_workout, msg_meal, msg_hi,
     kw_diabetes \o <<" ">> \o kw_workout,
     kw_lose \o <<" ">> \o kw_diabetes,
     kw_stress \o <<" ">> \o kw_sleep,
     <<"a">> \o kw_gain}

\* context tags: the four listed ones and one the service does not list
ReplyContexts == DOMAIN contexts \cup {"unlisted"}

\* a call of ChatService._generate_response
call_generate_response(message, context) ==
    /\ last' = Returned("_generate_response",
                        [message |-> message, context |-> context],
                        generate_response(message, context, None))
    /\ UNCHANGED <<chatVars, now, startupVars, tasks>>

ReplyNext ==
    \E message \in ReplyMessages, context \in ReplyContexts :
        call_generate_response(message, context)

-----------------------------------------------------------------------------
(* Double precision arithmetic *)

\* Python's float and numpy's float64 are IEEE 754 binary64 numbers, and every
\* operation rounds its exact result to the nearest double, ties to the even
\* mantissa.  Whole numbers of more than 31 bits are kept as sequences of
\* limbs, least significant first, each limb below Base.

LimbBits == 14
Base == 2 ^ LimbBits
MantissaBits == 53

limb(a, i) == IF i <= Len(a) THEN a[i] ELSE 0

RECURSIVE big_norm(_)
big_norm(a) ==
    IF Len(a) > 0 /\ a[Len(a)] = 0 THEN big_norm(SubSeq(a, 1, Len(a) - 1)) ELSE a

RECURSIVE big_of(_)
big_of(n) == IF n = 0 THEN <<>> ELSE <<n % Base>> \o big_of(n \div Base)

RECURSIVE big_to_int(_)
big_to_int(a) == IF Len(a) = 0 THEN 0 ELSE a[1] + Base * big_to_int(Tail(a))

RECURSIVE big_cmp_at(_, _, _)
big_cmp_at(a, b, i) ==
    IF i = 0 THEN 0
    ELSE IF a[i] > b[i] THEN 1
    ELSE IF a[i] < b[i] THEN -1
    ELSE big_cmp_at(a, b, i - 1)

\* -1, 0 or 1 as a is below, equal to or above b
big_cmp(a, b) ==
    IF Len(a) > Len(b) THEN 1
    ELSE IF Len(a) < Len(b) THEN -1
    ELSE big_cmp_at(a, b, Len(a))

RECURSIVE big_add_from(_, _, _, _)
big_add_from(a, b, i, carry) ==
    IF i > Len(a) /\ i > Len(b)
    THEN IF carry = 0 THEN <<>> ELSE <<carry>>
    ELSE LET s == limb(a, i) + limb(b, i) + carry
         IN  <<s % Base>> \o big_add_from(a, b, i + 1, s \div Base)

big_add(a, b) == big_add_from(a, b, 1, 0)

RECURSIVE big_sub_from(_, _, _, _)
big_sub_from(a, b, i, borrow) ==
    IF i > Len(a) THEN <<>>
    ELSE LET d == a[i] - limb(b, i) - borrow
         IN  <<IF d < 0 THEN d + Base ELSE d>>
                 \o big_sub_from(a, b, i + 1, IF d < 0 THEN 1 ELSE 0)

\* a - b for a >= b
big_sub(a, b) == big_norm(big_sub_from(a, b, 1, 0))

RECURSIVE big_scale_from(_, _, _, _)
big_scale_from(a, m, i, carry) ==
    IF i > Len(a)
    THEN big_of(carry)
    ELSE LET s == a[i] * m + carry
         IN  <<s % Base>> \o big_scale_from(a, m, i + 1, s \div Base)

\* a * m + carry for a whole number m of at most 16 bits
big_scale(a, m, carry) == big_scale_from(a, m, 1, carry)

RECURSIVE big_col(_, _, _, _)
big_col(a, b, k, i) ==
    IF i > Len(a) \/ i > k THEN 0
    ELSE (IF k + 1 - i <= Len(b) THEN a[i] * b[k + 1 - i] ELSE 0)
             + big_col(a, b, k, i + 1)

RECURSIVE big_mul_from(_, _, _, _)
big_mul_from(a, b, k, carry) ==
    IF k > Len(a) + Len(b) THEN <<>>
    ELSE LET s == big_col(a, b, k, 1) + carry
         IN  <<s % Base>> \o big_mul_from(a, b, k + 1, s \div Base)

big_mul(a, b) == big_norm(big_mul_from(a, b, 1, 0))

RECURSIVE zero_limbs(_)
zero_limbs(n) == IF n = 0 THEN <<>> ELSE <<0>> \o zero_limbs(n - 1)

big_shl(a, k) ==
    IF Len(a) = 0 THEN <<>>
    ELSE zero_limbs(k \div LimbBits) \o big_scale(a, 2 ^ (k % LimbBits), 0)

big_shr(a, k) ==
    LET q == k \div LimbBits
        r == k % LimbBits
        n == Len(a) - q
    IN  IF n <= 0 THEN <<>>
        ELSE big_norm([i \in 1..n |->
                 (a[i + q] \div (2 ^ r))
                     + (limb(a, i + q + 1) % (2 ^ r)) * (2 ^ (LimbBits - r))])

\* the low k bits of a
big_low(a, k) ==
    LET q == k \div LimbBits
        r == k % LimbBits
    IN  IF Len(a) <= q THEN a
        ELSE big_norm(SubSeq(a, 1, q) \o <<a[q + 1] % (2 ^ r)>>)

RECURSIVE limb_bitlen(_)
limb_bitlen(x) == IF x = 0 THEN 0 ELSE 1 + limb_bitlen(x \div 2)

big_bitlen(a) ==
    IF Len(a) = 0 THEN 0 ELSE (Len(a) - 1) * LimbBits + limb_bitlen(a[Len(a)])

\* one bit of the long division of s.r by b
big_div_step(s, b) ==
    IF big_cmp(s.r, b) >= 0
    THEN [r |-> big_scale(big_sub(s.r, b), 2, 0), q |-> big_scale(s.q, 2, 1)]
    ELSE [r |-> big_scale(s.r, 2, 0), q |-> big_scale(s.q, 2, 0)]

\* n bits of the long division
RECURSIVE big_div_bits(_, _, _)
big_div_bits(s, b, n) ==
    IF n = 0 \/ Len(s.q) < 0 THEN s
    ELSE big_div_bits(big_div_step(s, b), b, n - 1)

\* a divided by a whole number d of at most 16 bits, from the top limb down; limbs
\* 1..i are still to be divided and rem is what the limbs above have left
RECURSIVE big_short_div(_, _, _, _)
big_short_div(a, d, i, rem) ==
    IF i = 0 THEN [q |-> <<>>, r |-> rem]
    ELSE LET cur == rem * Base + a[i]
             below == big_short_div(a, d, i - 1, cur % d)
         IN  [q |-> below.q \o <<cur \div d>>, r |-> below.r]

\* bits 2j and 2j + 1 of n, as a number below 4
bit_pair(n, j) == (limb(n, (2 * j) \div LimbBits + 1) \div (2 ^ ((2 * j) % LimbBits))) % 4

\* the next bit of the root: 1 when the remainder rem holds the trial value
big_sqrt_take(root, rem, trial) ==
    IF big_cmp(rem, trial) >= 0
    THEN [rem |-> big_sub(rem, trial), root |-> big_scale(root, 2, 1)]
    ELSE [rem |-> rem, root |-> big_scale(root, 2, 0)]

\* one bit of the square root of n, taking the bit pair j of n into the remainder
big_sqrt_step(s, n, j) ==
    big_sqrt_take(s.root, big_scale(s.rem, 4, bit_pair(n, j)), big_scale(s.root, 4, 1))

\* root and remainder of the bit pairs j, j - 1, ..., 0 of n taken into s
RECURSIVE big_sqrt_bits(_, _, _)
big_sqrt_bits(s, n, j) ==
    IF j < 0 \/ Len(s.root) < 0 THEN s
    ELSE big_sqrt_bits(big_sqrt_step(s, n, j), n, j - 1)

\* A double is a sign, a mantissa of exactly MantissaBits bits and an exponent:
\* its value is man * 2^exp, negated when neg.  Zero has the empty mantissa.
float_zero == [neg |-> FALSE, man |-> <<>>, exp |-> 0]

\* mantissa q and exponent e as a double: a carry out of the top bit of the
\* mantissa drops its last bit, which is zero
float_pack(neg, q, e) ==
    IF big_bitlen(q) > MantissaBits
    THEN [neg |-> neg, man |-> big_shr(q, 1), exp |-> e + 1]
    ELSE [neg |-> neg, man |-> q, exp |-> e]

\* q * 2^e rounded by the bits dropped below q: c is -1, 0 or 1 as they are
\* below, equal to or above one half
float_round_half(neg, q, e, c, inexact) ==
    float_pack(neg,
               IF c = 1 \/ (c = 0 /\ (inexact \/ q[1] % 2 = 1))
               THEN big_add(q, <<1>>) ELSE q,
               e)

\* float_round of a number n of L bits
float_round_bits(neg, n, e, inexact, L) ==
    IF L = 0 THEN float_zero
    ELSE IF L <= MantissaBits
    THEN [neg |-> neg, man |-> big_shl(n, MantissaBits - L), exp |-> e - (MantissaBits - L)]
    ELSE float_round_half(neg, big_shr(n, L - MantissaBits), e + (L - MantissaBits),
                          big_cmp(big_low(n, L - MantissaBits),
                                  big_shl(<<1>>, L - MantissaBits - 1)),
                          inexact)

\* the double nearest to n * 2^e (ties to even); inexact says that the exact
\* value lies strictly above n * 2^e and below (n + 1) * 2^e
float_round(neg, n, e, inexact) == float_round_bits(neg, n, e, inexact, big_bitlen(n))

\* float(n) of a whole number
float_of(n) == float_round(n < 0, big_of(IF n < 0 THEN -n ELSE n), 0, FALSE)

float_neg(a) == IF Len(a.man) = 0 THEN a ELSE [a EXCEPT !.neg = ~a.neg]

\* -1, 0 or 1 as |a| is below, equal to or above |b|
float_cmp_abs(a, b) ==
    IF Len(a.man) = 0 \/ Len(b.man) = 0
    THEN (IF Len(a.man) > 0 THEN 1 ELSE 0) - (IF Len(b.man) > 0 THEN 1 ELSE 0)
    ELSE IF a.exp > b.exp THEN 1
    ELSE IF a.exp < b.exp THEN -1
    ELSE big_cmp(a.man, b.man)

float_cmp(a, b) ==
    IF a.neg # b.neg THEN (IF a.neg THEN -1 ELSE 1)
    ELSE IF a.neg THEN -float_cmp_abs(a, b) ELSE float_cmp_abs(a, b)

float_gt(a, b) == float_cmp(a, b) = 1
float_lt(a, b) == float_cmp(a, b) = -1

\* hi + lo for mantissas H and lo.man at the exponent of lo
float_add_mantissas(hi, lo, H) ==
    float_round(IF hi.neg = lo.neg \/ big_cmp(H, lo.man) >= 0 THEN hi.neg ELSE lo.neg,
                IF hi.neg = lo.neg THEN big_add(H, lo.man)
                ELSE IF big_cmp(H, lo.man) >= 0 THEN big_sub(H, lo.man)
                ELSE big_sub(lo.man, H),
                lo.exp, FALSE)

\* hi + lo for hi.exp >= lo.exp
float_add_aligned(hi, lo) ==
    IF hi.exp - lo.exp > MantissaBits + 8 THEN hi
    ELSE float_add_mantissas(hi, lo, big_shl(hi.man, hi.exp - lo.exp))

float_add(a, b) ==
    IF Len(a.man) = 0 THEN b
    ELSE IF Len(b.man) = 0 THEN a
    ELSE float_add_aligned(IF a.exp >= b.exp THEN a ELSE b,
                           IF a.exp >= b.exp THEN b ELSE a)

float_sub(a, b) == float_add(a, float_neg(b))

float_mul(a, b) ==
    IF Len(a.man) = 0 \/ Len(b.man) = 0 THEN float_zero
    ELSE float_round(a.neg # b.neg, big_mul(a.man, b.man), a.exp + b.exp, FALSE)

\* the division d by a whole number of at most 11 bits, and the long division
\* d, as quotient, exponent and whether a remainder is left
short_division(d, e) == [q |-> big_norm(d.q), e |-> e, inexact |-> d.r > 0]
long_division(d, e) == [q |-> d.q, e |-> e, inexact |-> Len(d.r) > 0]

float_round_quotient(neg, d) == float_round(neg, d.q, d.e, d.inexact)

\* a / b for b other than zero
float_truediv(a, b) ==
    IF Len(a.man) = 0 THEN float_zero
    ELSE float_round_quotient(
             a.neg # b.neg,
             IF b.man[1] = 0 /\ b.man[2] = 0 /\ b.man[3] = 0
             THEN \* the divisor is a whole number of at most 11 bits times a power of two
                  short_division(big_short_div(<<0>> \o a.man, b.man[4], 5, 0),
                                 a.exp - b.exp - 4 * LimbBits)
             ELSE long_division(big_div_bits([r |-> a.man, q |-> <<>>], b.man,
                                             MantissaBits + 3),
                                a.exp - b.exp - (MantissaBits + 2)))

float_round_root(r, e) == float_round(FALSE, r.root, e, Len(r.rem) > 0)

\* np.sqrt(a) for a >= 0
np_sqrt(a) ==
    IF Len(a.man) = 0 THEN float_zero
    ELSE LET k == IF a.exp % 2 = 0 THEN 56 ELSE 57
         IN  float_round_root(
                 big_sqrt_bits([rem |-> <<>>, root |-> <<>>], big_shl(a.man, k), 54),
                 (a.exp - k) \div 2)

\* the double written num/den as a decimal literal, den a power of ten
decimal(num, den) == float_truediv(float_of(num), float_of(den))

\* q plus one when the dropped bits round it up: c is -1, 0 or 1 as they are
\* below, equal to or above one half
big_round_half(q, c) ==
    big_to_int(q) + (IF c = 1 \/ (c = 0 /\ limb(q, 1) % 2 = 1) THEN 1 ELSE 0)

\* n / 2^s rounded to a whole number, ties to even
big_round_shr(n, s) ==
    IF s <= 0 THEN big_to_int(big_shl(n, -s))
    ELSE big_round_half(big_shr(n, s), big_cmp(big_low(n, s), big_shl(<<1>>, s - 1)))

\* x * 10^ndigits rounded to a whole number, ties of the exact value to even:
\* the digits that Python's round(x, ndigits) keeps
round_digits(x, ndigits) ==
    IF Len(x.man) = 0 THEN 0
    ELSE (IF x.neg THEN -1 ELSE 1) * big_round_shr(big_scale(x.man, 10 ^ ndigits, 0), -x.exp)

\* int(x): the whole part, towards zero
float_int(x) ==
    IF Len(x.man) = 0 THEN 0
    ELSE (IF x.neg THEN -1 ELSE 1)
             * (IF x.exp >= 0 THEN big_to_int(big_shl(x.man, x.exp))
                ELSE big_to_int(big_shr(x.man, -x.exp)))

\* |d| < eps
float_within(d, eps) == float_lt(d, eps) /\ float_gt(d, float_neg(eps))

\* |x - num/den| < 10^-9: x is num/den up to the rounding of the operations
near(x, num, den) ==
    float_within(float_sub(x, decimal(num, den)), decimal(1, 1000000000))

-----------------------------------------------------------------------------
(* Activity detection: numbers *)

\* Sensor samples are written in hundredths (1 is the JSON number 0.01) and
\* np.array turns them into doubles; statistics and features are doubles;
\* confidences are in hundredths; base calorie rates and intensity multipliers
\* are written in tenths; calories, rounded to one decimal, are in tenths of
\* kcal.

\* np.array(list) of a list of samples
np_array(data) == <<>> \o [i \in 1..Len(data) |-> decimal(data[i], 100)]

\* acc + a[from] + ... + a[to], added from left to right
RECURSIVE add_each(_, _, _, _)
add_each(acc, a, from, to) ==
    IF to < from THEN acc ELSE float_add(add_each(acc, a, from, to - 1), a[to])

\* a[from] + a[from + 8] + ... + a[to], added from left to right
RECURSIVE add_every_eighth(_, _, _)
add_every_eighth(a, from, to) ==
    IF to = from THEN a[from] ELSE float_add(add_every_eighth(a, from, to - 8), a[to])

\* The sum numpy's add.reduce takes of a float64 array: below 8 elements one
\* after the other; up to 128 elements eight running sums over the blocks of
\* eight, combined in pairs, then the rest one after the other; above that the
\* two halves separately.
RECURSIVE add_pairs(_)
RECURSIVE pairwise_sum(_)

\* ((r[1] + r[2]) + (r[3] + r[4])) + ((r[5] + r[6]) + (r[7] + r[8])): the
\* elements of r added in pairs, the sums in pairs, down to one
add_pairs(r) ==
    IF Len(r) = 1 THEN r[1]
    ELSE add_pairs([j \in 1..(Len(r) \div 2) |-> float_add(r[2 * j - 1], r[2 * j])])

pairwise_sum(a) ==
    LET n == Len(a)
        full == n - (n % 8)
        half == (n \div 2) - ((n \div 2) % 8)
    IN  IF n <= 128
        THEN add_each(IF n < 8 THEN float_zero
                      ELSE add_pairs([j \in 1..8 |-> add_every_eighth(a, j, full - 8 + j)]),
                      a,
                      IF n < 8 THEN 1 ELSE full + 1,
                      n)
        ELSE float_add(pairwise_sum(SubSeq(a, 1, half)), pairwise_sum(SubSeq(a, half + 1, n)))

\* arr - arrmean and x * x, element by element
deviations(arr, arrmean) == <<>> \o [i \in 1..Len(arr) |-> float_sub(arr[i], arrmean)]
squares(x) == <<>> \o [i \in 1..Len(x) |-> float_mul(x[i], x[i])]

\* np.mean, np.std, np.max, np.min of a non-empty array of doubles
np_mean(data) == float_truediv(pairwise_sum(data), float_of(Len(data)))
np_std(data) ==
    np_sqrt(float_truediv(pairwise_sum(squares(deviations(data, np_mean(data)))),
                          float_of(Len(data))))
np_max(data) == CHOOSE v \in Range(data) : \A w \in Range(data) : float_cmp(w, v) <= 0
np_min(data) == CHOOSE v \in Range(data) : \A w \in Range(data) : float_cmp(v, w) <= 0

\* numpy broadcasting of one-dimensional arrays: lengths other than 1 must agree
Broadcastable(a, b, c) ==
    Cardinality({Len(a), Len(b), Len(c)} \ {1}) <= 1

BroadcastLen(a, b, c) ==
    CHOOSE n \in {Len(a), Len(b), Len(c)} : \A m \in {Len(a), Len(b), Len(c)} : m <= n

At(a, i) == IF Len(a) = 1 THEN a[1] ELSE a[i]

\* np.sqrt(x**2 + y**2 + z**2) of three arrays of doubles, element by element
acc_magnitude(x, y, z) ==
    <<>> \o [i \in 1..BroadcastLen(x, y, z) |->
                np_sqrt(float_add(float_add(float_mul(At(x, i), At(x, i)),
                                            float_mul(At(y, i), At(y, i))),
                                  float_mul(At(z, i), At(z, i))))]

-----------------------------------------------------------------------------
(* Activity detection: ActivityDetectionService *)

activities ==
    <<"walking", "running", "cycling", "swimming", "sitting",
      "standing", "lying_down", "stairs_up", "stairs_down", "jumping">>

\* the number of columns of the synthetic data the scaler and the classifier
\* are fitted on in _initialize_model
activity_n_features == 12

\* the four features of the readings of one axis
array_features(data) == <<np_mean(data), np_std(data), np_max(data), np_min(data)>>

axis_features(data, axis) ==
    IF axis \in DOMAIN data /\ data[axis] # <<>>
    THEN array_features(np_array(data[axis]))
    ELSE <<float_zero, float_zero, float_zero, float_zero>>

\* for axis in ['x', 'y', 'z']: the features of the axes, one after the other
RECURSIVE axes_features(_, _)
axes_features(data, axes) ==
    IF axes = <<>> THEN <<>>
    ELSE axis_features(data, Head(axes)) \o axes_features(data, Tail(axes))

magnitude_features(magnitude) == <<np_mean(magnitude), np_std(magnitude)>>

\* _extract_features raises (numpy cannot broadcast the three axes together)
extract_features_raises(accelerometer_data, gyroscope_data, duration) ==
    /\ accelerometer_data.x # <<>>
    /\ accelerometer_data.y # <<>>
    /\ accelerometer_data.z # <<>>
    /\ ~Broadcastable(accelerometer_data.x, accelerometer_data.y, accelerometer_data.z)

extract_features(accelerometer_data, gyroscope_data, duration) ==
    axes_features(accelerometer_data, <<"x", "y", "z">>)
    \o axes_features(gyroscope_data, <<"x", "y", "z">>)
    \o (IF /\ accelerometer_data.x # <<>>
           /\ accelerometer_data.y # <<>>
           /\ accelerometer_data.z # <<>>
        THEN magnitude_features(acc_magnitude(np_array(accelerometer_data.x),
                                              np_array(accelerometer_data.y),
                                              np_array(accelerometer_data.z)))
        ELSE <<float_zero, float_zero>>)

\* features[0] and features[1] of the Python list are features[1] and features[2]
mock_prediction(features) ==
    LET acc_magnitude_mean == IF Len(features) > 0 THEN features[1] ELSE float_zero
        acc_magnitude_std == IF Len(features) > 1 THEN features[2] ELSE float_zero
    IN  IF /\ float_gt(acc_magnitude_mean, decimal(5, 10))
           /\ float_gt(acc_magnitude_std, decimal(3, 10))
        THEN [activity |-> "running", confidence |-> 85]
        ELSE IF /\ float_gt(acc_magnitude_mean, decimal(2, 10))
                /\ float_gt(acc_magnitude_std, decimal(1, 10))
        THEN [activity |-> "walking", confidence |-> 80]
        ELSE IF /\ float_lt(acc_magnitude_mean, decimal(1, 10))
                /\ float_lt(acc_magnitude_std, decimal(5, 100))
        THEN [activity |-> "sitting", confidence |-> 90]
        ELSE [activity |-> "standing", confidence |-> 75]

\* calculate_intensity with both thresholds of a tier required together
calculate_intensity_conjunctive(features) ==
    IF Len(features) < 2 THEN "unknown"
    ELSE IF float_gt(features[1], decimal(5, 10)) /\ float_gt(features[2], decimal(4, 10))
    THEN "high"
    ELSE IF float_gt(features[1], decimal(2, 10)) /\ float_gt(features[2], decimal(15, 100))
    THEN "moderate"
    ELSE "low"

calculate_intensity(features) ==
    IF Len(features) < 2 THEN "unknown"
    ELSE IF float_gt(features[1], decimal(5, 10)) \/ float_gt(features[2], decimal(4, 10))
    THEN "high"
    ELSE IF float_gt(features[1], decimal(2, 10)) \/ float_gt(features[2], decimal(15, 100))
    THEN "moderate"
    ELSE "low"

base_calories ==
    [walking |-> 35, running |-> 80, cycling |-> 60, swimming |-> 70, sitting |-> 10,
     standing |-> 12, lying_down |-> 8, stairs_up |-> 90, stairs_down |-> 40,
     jumping |-> 100]

\* round(base_rate * intensity_multiplier * (duration / 60), 1), in tenths
estimate_calories(activity, duration, intensity) ==
    LET base_rate == decimal(IF activity \in DOMAIN base_calories
                             THEN base_calories[activity] ELSE 20,
                             10)
        intensity_multiplier ==
            decimal(CASE intensity = "low" -> 7
                      [] intensity = "moderate" -> 10
                      [] intensity = "high" -> 13
                      [] OTHER -> 10,
                    10)
        calories_per_minute == float_mul(base_rate, intensity_multiplier)
        total_calories == float_mul(calories_per_minute,
                                    float_truediv(float_of(duration), float_of(60)))
    IN  round_digits(total_calories, 1)

\* activity_probs.sort(key=probability, reverse=True): a stable sort, so equal
\* probabilities keep the order of self.activities
RECURSIVE SortedByProba(_, _)
SortedByProba(probabilities, left) ==
    IF left = {} THEN <<>>
    ELSE LET best == CHOOSE i \in left :
                        \A j \in left :
                            \/ probabilities[i] > probabilities[j]
                            \/ (probabilities[i] = probabilities[j] /\ i <= j)
         IN  <<[activity |-> activities[best], confidence |-> probabilities[best]]>>
             \o SortedByProba(probabilities, left \ {best})

\* the result of detect_activity: the predicted activity and its confidence
\* are those of the first of the top predictions
detection_result(top_predictions, intensity, features, duration, processing_time_ms) ==
    [raised |-> FALSE,
     value |-> [predicted_activity |-> top_predictions[1].activity,
                confidence |-> top_predictions[1].confidence,
                top_predictions |-> top_predictions,
                duration_seconds |-> duration,
                intensity_level |-> intensity,
                estimated_calories |->
                    estimate_calories(top_predictions[1].activity, duration, intensity),
                features_extracted |-> Len(features),
                processing_time_ms |-> processing_time_ms]]

\* detect_activity from the features on: the prediction, the intensity, the
\* calories and the result.  probabilities is what predict_proba returns when
\* it is reached, processing_time_ms is the value random.randint(50, 200) draws.
predict_from_features(mdl, features, duration, probabilities, processing_time_ms) ==
    IF mdl # "None" /\ Len(features) # activity_n_features
    THEN \* self.scaler.transform([features]) rejects the row
         [raised |-> TRUE,
          error |-> <<"Activity detection failed: ",
                      "X has a different number of features than the scaler was fitted on">>]
    ELSE detection_result(IF mdl # "None"
                          THEN Prefix(SortedByProba(probabilities, 1..Len(activities)), 3)
                          ELSE <<mock_prediction(features)>>,
                          calculate_intensity(features),
                          features, duration, processing_time_ms)

\* what `features = self._extract_features(...)` leaves: the list, or the
\* exception of numpy
features_or_error(accelerometer_data, gyroscope_data, duration) ==
    IF extract_features_raises(accelerometer_data, gyroscope_data, duration)
    THEN [raised |-> TRUE,
          error |-> <<"Activity detection failed: ",
                      "operands could not be broadcast together">>]
    ELSE [raised |-> FALSE,
          value |-> extract_features(accelerometer_data, gyroscope_data, duration)]

\* detect_activity once _extract_features has returned or raised
detect_from_extracted(mdl, extracted, duration, probabilities, processing_time_ms) ==
    IF extracted.raised THEN extracted
    ELSE predict_from_features(mdl, extracted.value, duration, probabilities,
                               processing_time_ms)

\* detect_activity
service_detect_activity(mdl, accelerometer_data, gyroscope_data, duration, user_id, probabilities, processing_time_ms) ==
    detect_from_extracted(mdl, features_or_error(accelerometer_data, gyroscope_data, duration),
                          duration, probabilities, processing_time_ms)

service_get_supported_activities ==
    [activities |-> activities,
     total_count |-> Len(activities),
     categories |->
        [cardio |-> <<"walking", "running", "cycling", "swimming", "stairs_up",
                      "stairs_down", "jumping">>,
         strength |-> <<"jumping">>,
         sedentary |-> <<"sitting", "standing", "lying_down">>],
     sensor_requirements |->
        [accelerometer |-> "required",
         gyroscope |-> "optional",
         minimum_duration |-> "5 seconds",
         sampling_rate |-> "50 Hz recommended"]]

-----------------------------------------------------------------------------
(* Activity detection: inputs *)

\* items of an activity batch request
MaxBatch == 2

\* n samples that alternate between a and b
Window(n, a, b) == [i \in 1..n |-> IF i % 2 = 1 THEN a ELSE b]

SensorData(ax, ay, az, g) ==
    [accelerometer_x |-> ax, accelerometer_y |-> ay, accelerometer_z |-> az,
     gyroscope_x |-> g, gyroscope_y |-> g, gyroscope_z |-> g]

ActivityRequests ==
    { \* ten samples per axis, no gyroscope
      [data |-> SensorData(Window(10, 100, 20), Window(10, 0, 0), Window(10, 0, 0), <<>>),
       duration_seconds |-> 60, user_id |-> "u1"],
      \* ten samples per axis, with gyroscope
      [data |-> SensorData(Window(10, 30, 40), Window(10, 40, 30), Window(10, 0, 0),
                           Window(10, 5, 5)),
       duration_seconds |-> 90, user_id |-> "u1"],
      \* five samples on every axis
      [data |-> SensorData(Window(5, 30, 30), Window(5, 40, 40), Window(5, 0, 0), <<>>),
       duration_seconds |-> 60, user_id |-> "u1"],
      \* ten samples on x and z, three on y
      [data |-> SensorData(Window(10, 100, 20), Window(3, 0, 0), Window(10, 0, 0), <<>>),
       duration_seconds |-> 60, user_id |-> "u1"],
      \* ten samples on x and y, one on z
      [data |-> SensorData(Window(10, 0, 0), Window(10, 0, 0), Window(1, 0, 0), <<>>),
       duration_seconds |-> 60, user_id |-> "u1"] }

\* what the random parts of one detect_activity call draw: the class
\* probabilities of predict_proba and the value of random.randint(50, 200)
ActivityDraws ==
    { [probabilities |-> <<10, 10, 10, 10, 10, 10, 10, 10, 10, 10>>,
       processing_time_ms |-> 50],
      [probabilities |-> <<5, 40, 5, 5, 5, 5, 5, 20, 5, 5>>,
       processing_time_ms |-> 200] }

-----------------------------------------------------------------------------
(* Activity detection: routes (routes/activity_detection.py) *)

\* the values ActivityDetectionService.model can have after __init__
Models == {"fitted", "None"}

\* _extract_features and detect_activity on the requests of the model,
\* evaluated once
RequestFeatures ==
    [request \in ActivityRequests |->
        features_or_error([x |-> request.data.accelerometer_x,
                           y |-> request.data.accelerometer_y,
                           z |-> request.data.accelerometer_z],
                          [x |-> request.data.gyroscope_x,
                           y |-> request.data.gyroscope_y,
                           z |-> request.data.gyroscope_z],
                          request.duration_seconds)]

DetectTable ==
    [mdl \in Models, request \in ActivityRequests, draw \in ActivityDraws |->
        detect_from_extracted(mdl, RequestFeatures[request], request.duration_seconds,
                              draw.probabilities, draw.processing_time_ms)]

\* the exchange, with the arguments of the service calls the handler made
WithCalls(exchange, calls) ==
    [f \in DOMAIN exchange \cup {"calls"} |->
        IF f = "calls" THEN calls ELSE exchange[f]]

accelerometer_of(request) ==
    [x |-> request.data.accelerometer_x,
     y |-> request.data.accelerometer_y,
     z |-> request.data.accelerometer_z]

gyroscope_of(request) ==
    [x |-> request.data.gyroscope_x,
     y |-> request.data.gyroscope_y,
     z |-> request.data.gyroscope_z]

\* the fewest accelerometer_x samples the single-request route lets through
MinSamples == 10

\* the exchange once detect_activity has returned or raised r
detected_exchange(route, request, r) ==
    IF r.raised
    THEN WithCalls(Failed(route, request, 500,
                          <<"Activity detection failed: ">> \o r.error),
                   <<accelerometer_of(request)>>)
    ELSE WithCalls(Ok(route, request, [success |-> TRUE, data |-> r.value]),
                   <<accelerometer_of(request)>>)

\* POST /activity-detect/ : the exchange it produces.  The HTTPException(400)
\* of the validation is raised inside the try block, whose `except Exception`
\* catches it and raises HTTPException(500) in its place.
route_detect_activity(mdl, request, draw) ==
    IF Len(request.data.accelerometer_x) < MinSamples
    THEN WithCalls(Failed("POST /activity-detect/", request, 500,
                          <<"Activity detection failed: ",
                            "400: Insufficient sensor data">>),
                   <<>>)
    ELSE detected_exchange("POST /activity-detect/", request,
                           DetectTable[mdl, request, draw])

detect_activity(request) ==
    /\ \E draw \in ActivityDraws : last' = route_detect_activity(model, request, draw)
    /\ UNCHANGED <<chatVars, now, startupVars, tasks>>

\* one entry of the batch result: sample_id with result, or sample_id with error
batch_entry(i, r) ==
    IF r.raised
    THEN [sample_id |-> i - 1, error |-> r.error]
    ELSE [sample_id |-> i - 1, result |-> r.value]

batch_data(results) == [results |-> results, total_samples |-> Len(results)]

\* POST /activity-detect/batch : the exchange it produces
route_detect_activity_batch(mdl, requests, draws) ==
    WithCalls(Ok("POST /activity-detect/batch", requests,
                 [success |-> TRUE,
                  data |-> batch_data([i \in 1..Len(requests) |->
                              batch_entry(i, DetectTable[mdl, requests[i], draws[i]])])]),
              [i \in 1..Len(requests) |-> accelerometer_of(requests[i])])

detect_activity_batch(requests, draws) ==
    /\ last' = route_detect_activity_batch(model, requests, draws)
    /\ UNCHANGED <<chatVars, now, startupVars, tasks>>

\* GET /activity-detect/activities
get_supported_activities ==
    /\ last' = Ok("GET /activity-detect/activities", [none |-> TRUE],
                  [success |-> TRUE, data |-> service_get_supported_activities])
    /\ UNCHANGED <<chatVars, now, startupVars, tasks>>

ActivityNext ==
    \/ \E request \in ActivityRequests : detect_activity(request)
    \/ \E n \in 0..MaxBatch :
         \E requests \in [1..n -> ActivityRequests], draws \in [1..n -> ActivityDraws] :
            detect_activity_batch(requests, draws)
    \/ get_supported_activities

-----------------------------------------------------------------------------
(* Activity detection: the service called directly *)

\* mean and spread (hundredths) of the accelerometer_x windows: ten samples
\* that alternate between mean + spread and mean - spread, so that the mean and
\* the standard deviation lie below, on and above the thresholds of
\* _mock_prediction and _calculate_intensity
WindowShapes ==
    { <<0, 0>>, <<5, 4>>, <<0, 5>>, <<10, 0>>, <<10, 5>>, <<20, 10>>, <<21, 10>>,
      <<21, 11>>, <<21, 15>>, <<20, 16>>, <<0, 15>>, <<0, 16>>, <<30, 20>>,
      <<50, 30>>, <<51, 30>>, <<51, 31>>, <<51, 0>>, <<51, 11>>, <<0, 40>>,
      <<0, 41>>, <<50, 40>>, <<20, 41>> }

Still == Window(10, 0, 0)

DetectInputs ==
    { [accelerometer_data |-> [x |-> Window(10, w[1] + w[2], w[1] - w[2]),
                               y |-> Still, z |-> Still],
       gyroscope_data |-> [x |-> <<>>, y |-> <<>>, z |-> <<>>],
       duration |-> 60] : w \in WindowShapes }
    \cup
    { [accelerometer_data |-> [x |-> x, y |-> Window(10, 100, 20), z |-> Still],
       gyroscope_data |-> [x |-> g, y |-> g, z |-> g],
       duration |-> 60] :
        x \in {Still, Window(10, 10, 0)}, g \in {<<>>, Window(10, 5, 5)} }
    \cup
    { [accelerometer_data |-> [x |-> Window(10, 82, 20), y |-> Still, z |-> Still],
       gyroscope_data |-> [x |-> g, y |-> g, z |-> g],
       duration |-> 60] : g \in {Window(10, 5, 5), Window(10, 5, -5)} }

\* _extract_features and detect_activity on the inputs above, evaluated once
\* (none of the inputs makes _extract_features raise)
FeatureCalls ==
    [input \in DetectInputs |->
        extract_features(input.accelerometer_data, input.gyroscope_data, input.duration)]

DetectCalls ==
    [mdl \in Models, input \in DetectInputs, draw \in ActivityDraws |->
        predict_from_features(mdl, FeatureCalls[input], input.duration,
                              draw.probabilities, draw.processing_time_ms)]

\* a call of ActivityDetectionService.detect_activity
call_detect_activity(input, draw) ==
    /\ last' = outcome_of("detect_activity", input, DetectCalls[model, input, draw])
    /\ UNCHANGED <<chatVars, now, startupVars, tasks>>

\* a call of ActivityDetectionService._extract_features
call_extract_features(input) ==
    /\ last' = Returned("_extract_features", input, FeatureCalls[input])
    /\ UNCHANGED <<chatVars, now, startupVars, tasks>>

DetectNext ==
    \/ \E input \in DetectInputs, draw \in ActivityDraws : call_detect_activity(input, draw)
    \/ \E input \in DetectInputs : call_extract_features(input)

-----------------------------------------------------------------------------
(* Food recognition: FoodRecognitionService *)

\* Nutrition values (calories, protein, carbs, fat, fiber) are in tenths;
\* confidences and confidence thresholds are in hundredths.

\* the table _load_food_database returns
food_database ==
    [apple |-> [calories |-> 520, protein |-> 3, carbs |-> 138, fat |-> 2,
                fiber |-> 24, vitamins |-> <<"C", "K">>, confidence_threshold |-> 80],
     banana |-> [calories |-> 890, protein |-> 11, carbs |-> 228, fat |-> 3,
                 fiber |-> 26, vitamins |-> <<"B6", "C">>, confidence_threshold |-> 80],
     chicken_breast |-> [calories |-> 1650, protein |-> 310, carbs |-> 0, fat |-> 36,
                         fiber |-> 0, vitamins |-> <<"B6", "B12">>,
                         confidence_threshold |-> 70],
     salmon |-> [calories |-> 2080, protein |-> 250, carbs |-> 0, fat |-> 120,
                 fiber |-> 0, vitamins |-> <<"B12", "D">>, confidence_threshold |-> 70],
     rice |-> [calories |-> 1300, protein |-> 27, carbs |-> 280, fat |-> 3,
               fiber |-> 4, vitamins |-> <<"B1", "B3">>, confidence_threshold |-> 80],
     broccoli |-> [calories |-> 340, protein |-> 28, carbs |-> 66, fat |-> 4,
                   fiber |-> 26, vitamins |-> <<"C", "K">>, confidence_threshold |-> 80],
     pizza |-> [calories |-> 2660, protein |-> 110, carbs |-> 330, fat |-> 100,
                fiber |-> 23, vitamins |-> <<"B12", "D">>, confidence_threshold |-> 90],
     salad |-> [calories |-> 200, protein |-> 20, carbs |-> 40, fat |-> 2,
                fiber |-> 15, vitamins |-> <<"A", "C">>, confidence_threshold |-> 60]]

\* the record recognize_food falls back on for a name outside the table
default_nutrition ==
    [calories |-> 2000, protein |-> 100, carbs |-> 250, fat |-> 80, fiber |-> 30,
     vitamins |-> <<"C">>, confidence_threshold |-> 50]

\* str.lower() on the food names the model sends
str_lower(name) ==
    CASE name = "Apple" -> "apple"
      [] name = "PIZZA" -> "pizza"
      [] OTHER -> name

generate_ingredients(food_name) ==
    CASE food_name = "apple" -> <<"Apple">>
      [] food_name = "banana" -> <<"Banana">>
      [] food_name = "chicken_breast" -> <<"Chicken breast", "Salt", "Pepper">>
      [] food_name = "salmon" -> <<"Salmon fillet", "Lemon", "Dill", "Salt">>
      [] food_name = "rice" -> <<"White rice", "Water", "Salt">>
      [] food_name = "broccoli" -> <<"Broccoli", "Olive oil", "Salt">>
      [] food_name = "pizza" -> <<"Pizza dough", "Tomato sauce", "Mozzarella", "Pepperoni">>
      [] food_name = "salad" ->
            <<"Mixed greens", "Tomatoes", "Cucumbers", "Olive oil", "Vinegar">>
      [] OTHER -> <<"Unknown ingredients">>

\* _calculate_health_score without the final max(0, min(100, score))
calculate_health_score_unclamped(nutrition_info) ==
    LET s0 == 100
        s1 == IF nutrition_info.calories > 3000 THEN s0 - 20
              ELSE IF nutrition_info.calories > 2000 THEN s0 - 10 ELSE s0
        s2 == IF nutrition_info.protein > 200 THEN s1 + 10
              ELSE IF nutrition_info.protein > 100 THEN s1 + 5 ELSE s1
        s3 == IF nutrition_info.fat > 150 THEN s2 - 15
              ELSE IF nutrition_info.fat > 100 THEN s2 - 10 ELSE s2
        score == IF nutrition_info.fiber > 50 THEN s3 + 10
                 ELSE IF nutrition_info.fiber > 20 THEN s3 + 5 ELSE s3
    IN  score

\* _calculate_health_score whose fat thresholds include the threshold value
calculate_health_score_fat_inclusive(nutrition_info) ==
    LET s0 == 100
        s1 == IF nutrition_info.calories > 3000 THEN s0 - 20
              ELSE IF nutrition_info.calories > 2000 THEN s0 - 10 ELSE s0
        s2 == IF nutrition_info.protein > 200 THEN s1 + 10
              ELSE IF nutrition_info.protein > 100 THEN s1 + 5 ELSE s1
        s3 == IF nutrition_info.fat >= 150 THEN s2 - 15
              ELSE IF nutrition_info.fat >= 100 THEN s2 - 10 ELSE s2
        score == IF nutrition_info.fiber > 50 THEN s3 + 10
                 ELSE IF nutrition_info.fiber > 20 THEN s3 + 5 ELSE s3
    IN  IF score > 100 THEN 100 ELSE IF score < 0 THEN 0 ELSE score

calculate_health_score(nutrition_info) ==
    LET s0 == 100
        s1 == IF nutrition_info.calories > 3000 THEN s0 - 20
              ELSE IF nutrition_info.calories > 2000 THEN s0 - 10 ELSE s0
        s2 == IF nutrition_info.protein > 200 THEN s1 + 10
              ELSE IF nutrition_info.protein > 100 THEN s1 + 5 ELSE s1
        s3 == IF nutrition_info.fat > 150 THEN s2 - 15
              ELSE IF nutrition_info.fat > 100 THEN s2 - 10 ELSE s2
        score == IF nutrition_info.fiber > 50 THEN s3 + 10
                 ELSE IF nutrition_info.fiber > 20 THEN s3 + 5 ELSE s3
    IN  IF score > 100 THEN 100 ELSE IF score < 0 THEN 0 ELSE score

detect_allergens(food_name) ==
    CASE food_name = "pizza" -> <<"gluten", "dairy">>
      [] food_name = "salmon" -> <<"fish">>
      [] food_name = "chicken_breast" -> <<>>
      [] OTHER -> <<>>

\* recognize_food.  draw holds what _simulate_recognition draws (food_name from
\* random.choice over the table keys, confidence from random.uniform(0.7, 0.95))
\* and the value of random.randint(200, 800).
service_recognize_food(db, draw, user_id) ==
    LET food_name == draw.food_name
        nutrition_info == IF food_name \in DOMAIN db
                          THEN db[food_name]
                          ELSE default_nutrition
    IN  [food_name |-> food_name,
         confidence |-> draw.confidence,
         nutrition |-> [calories |-> nutrition_info.calories,
                        protein |-> nutrition_info.protein,
                        carbs |-> nutrition_info.carbs,
                        fat |-> nutrition_info.fat,
                        fiber |-> nutrition_info.fiber],
         vitamins |-> nutrition_info.vitamins,
         ingredients |-> generate_ingredients(food_name),
         serving_size |-> "1 serving",
         health_score |-> calculate_health_score(nutrition_info),
         allergens |-> detect_allergens(food_name),
         processing_time_ms |-> draw.processing_time_ms]

get_health_benefits(food_name) ==
    CASE food_name = "apple" ->
            <<"Rich in fiber", "Contains antioxidants", "Supports heart health">>
      [] food_name = "banana" ->
            <<"High in potassium", "Good source of vitamin B6", "Supports digestion">>
      [] food_name = "chicken_breast" ->
            <<"High-quality protein", "Low in fat", "Rich in B vitamins">>
      [] food_name = "salmon" ->
            <<"High in omega-3 fatty acids", "Excellent protein source",
              "Rich in vitamin D">>
      [] food_name = "broccoli" ->
            <<"High in vitamin C", "Contains antioxidants", "Supports immune system">>
      [] OTHER -> <<"Nutritious food">>

get_preparation_tips(food_name) ==
    CASE food_name = "chicken_breast" ->
            <<"Cook to internal temperature of 165°F", "Let rest before slicing">>
      [] food_name = "salmon" -> <<"Cook until flaky", "Don't overcook">>
      [] food_name = "broccoli" -> <<"Steam for 3-5 minutes", "Keep bright green color">>
      [] food_name = "rice" -> <<"Use 2:1 water to rice ratio", "Let steam after cooking">>
      [] OTHER -> <<"Enjoy fresh">>

\* get_nutrition_info that looks the name up as it was given
service_get_nutrition_info_exact(db, food_name) ==
    IF food_name \notin DOMAIN db
    THEN [raised |-> TRUE, error |-> <<"Food '", food_name, "' not found in database">>]
    ELSE [raised |-> FALSE,
          value |-> [food_name |-> food_name,
                     nutrition |-> db[food_name],
                     health_benefits |-> get_health_benefits(food_name),
                     preparation_tips |-> get_preparation_tips(food_name)]]

\* get_nutrition_info on the table db; it reads db and returns the entry itself
service_get_nutrition_info(db, food_name) ==
    IF str_lower(food_name) \notin DOMAIN db
    THEN [raised |-> TRUE, error |-> <<"Food '", food_name, "' not found in database">>]
    ELSE [raised |-> FALSE,
          value |-> [food_name |-> food_name,
                     nutrition |-> db[str_lower(food_name)],
                     health_benefits |-> get_health_benefits(food_name),
                     preparation_tips |-> get_preparation_tips(food_name)]]

-----------------------------------------------------------------------------
(* Food recognition: inputs *)

\* images of a food batch request
MaxImages == 2

\* An upload: its content type (None when the part carries none), whether
\* PIL's Image.open can decode its bytes, and whether the upload was larger
\* than the spool limit and so was rolled over to a file on disk.
Uploads ==
    { [filename |-> "meal.png", content_type |-> "image/png", decodable |-> TRUE,
       spooled |-> FALSE],
      [filename |-> "large.png", content_type |-> "image/png", decodable |-> TRUE,
       spooled |-> TRUE],
      [filename |-> "notes.txt", content_type |-> "text/plain", decodable |-> FALSE,
       spooled |-> FALSE],
      [filename |-> "broken.png", content_type |-> "image/png", decodable |-> FALSE,
       spooled |-> TRUE],
      [filename |-> "blob", content_type |-> None, decodable |-> FALSE,
       spooled |-> FALSE] }

FoodDraws ==
    { [food_name |-> "apple", confidence |-> 70, processing_time_ms |-> 200],
      [food_name |-> "pizza", confidence |-> 95, processing_time_ms |-> 800],
      [food_name |-> "salmon", confidence |-> 82, processing_time_ms |-> 431],
      [food_name |-> "chicken_breast", confidence |-> 70, processing_time_ms |-> 800],
      [food_name |-> "salad", confidence |-> 95, processing_time_ms |-> 200],
      [food_name |-> "rice", confidence |-> 77, processing_time_ms |-> 650],
      [food_name |-> "broccoli", confidence |-> 88, processing_time_ms |-> 200],
      [food_name |-> "banana", confidence |-> 91, processing_time_ms |-> 305] }

\* An upload together with what the recognition draws for it: every draw for
\* the image held in memory, one draw for the image on disk, and for an upload
\* that never reaches the recognition one draw that stands for all.
FoodItems ==
    { [upload |-> u, draw |-> d] :
        u \in {v \in Uploads : v.decodable /\ ~v.spooled}, d \in FoodDraws }
    \cup { [upload |-> u, draw |-> CHOOSE d \in FoodDraws : d.food_name = "salmon"] :
             u \in {v \in Uploads : v.decodable /\ v.spooled} }
    \cup { [upload |-> u, draw |-> CHOOSE d \in FoodDraws : d.food_name = "apple"] :
             u \in {v \in Uploads : ~v.decodable} }

\* the items of the batch requests: one per upload
BatchFoodItems ==
    { item \in FoodItems :
        item.upload.filename = "meal.png" => item.draw.food_name = "pizza" }

\* The batch requests, by the file names of their images: every kind of
\* upload alone, images held in memory and on disk in both orders, an upload
\* that raises before and after a valid image, and lists whose handler waits
\* in more than one read.
BatchNames ==
    { <<>>, <<"meal.png">>, <<"notes.txt">>, <<"blob">>, <<"large.png">>, <<"broken.png">>,
      <<"meal.png", "meal.png">>, <<"notes.txt", "meal.png">>, <<"meal.png", "notes.txt">>,
      <<"blob", "meal.png">>, <<"meal.png", "blob">>, <<"meal.png", "large.png">>,
      <<"large.png", "meal.png">>, <<"large.png", "broken.png">>,
      <<"meal.png", "notes.txt", "meal.png">>, <<"large.png", "notes.txt", "large.png">>,
      <<"meal.png", "meal.png", "blob">> }

BatchRequests ==
    { [i \in 1..Len(names) |->
          CHOOSE item \in BatchFoodItems : item.upload.filename = names[i]] :
        names \in {list \in BatchNames : Len(list) <= MaxImages} }

FoodNames ==
    {"apple", "banana", "chicken_breast", "salmon", "rice", "broccoli", "pizza", "salad",
     "Apple", "PIZZA", "mango"}

-----------------------------------------------------------------------------
(* Food recognition: routes (routes/food_recognition.py) *)

\* image.content_type.startswith('image/')
is_image(upload) == upload.content_type = "image/png"

\* the exception, if any, that handling one upload raises after the content
\* type test let it through
upload_error(upload) ==
    IF upload.content_type = None
    THEN <<"'NoneType' object has no attribute 'startswith'">>
    ELSE IF is_image(upload) /\ ~upload.decodable
    THEN <<"cannot identify image file">>
    ELSE <<>>

\* POST /food-recognition/ : the exchange it produces.  The HTTPException(400)
\* is raised inside the try block and caught by its `except Exception`.
route_recognize_food(db, upload, user_id, draw) ==
    LET route == "POST /food-recognition/"
        request == [image |-> upload, user_id |-> user_id]
    IN  IF upload.content_type = None
        THEN Failed(route, request, 500,
                    <<"Food recognition failed: ">> \o upload_error(upload))
        ELSE IF ~is_image(upload)
        THEN Failed(route, request, 500,
                    <<"Food recognition failed: ", "400: File must be an image">>)
        ELSE IF ~upload.decodable
        THEN Failed(route, request, 500,
                    <<"Food recognition failed: ">> \o upload_error(upload))
        ELSE Ok(route, request,
                [success |-> TRUE, data |-> service_recognize_food(db, draw, user_id)])

\* Whether `await image.read()` hands control back to the event loop:
\* UploadFile.read returns the bytes of an upload held in memory at once and
\* reads an upload rolled over to disk in the thread pool.
suspends_in_read(upload) == upload.spooled

\* POST /food-recognition/ from its start: the content type test, then
\* `await image.read()`.  An upload that fails the test, or whose read does
\* not suspend, is answered in this step; a read that suspends leaves the
\* handler with the event loop, next to the handlers already waiting there.
recognize_food(upload, user_id, draw) ==
    /\ IF upload.content_type # None /\ is_image(upload) /\ suspends_in_read(upload)
       THEN /\ Cardinality(tasks) < MaxTasks
            /\ tasks' = hold(tasks, [route |-> "POST /food-recognition/",
                                     copy |-> 0,
                                     request |-> [image |-> upload, user_id |-> user_id],
                                     draws |-> <<draw>>,
                                     pc |-> 1])
            /\ UNCHANGED last
       ELSE /\ last' = route_recognize_food(food_db, upload, user_id, draw)
            /\ UNCHANGED tasks
    /\ UNCHANGED <<chatVars, now, startupVars>>

\* the event loop resumes POST /food-recognition/ after the read: Image.open,
\* the recognition and the response
resume_recognize_food(task) ==
    /\ task.route = "POST /food-recognition/"
    /\ resumable(tasks, task)
    /\ tasks' = tasks \ {task}
    /\ last' = route_recognize_food(food_db, task.request.image, task.request.user_id,
                                    task.draws[1])
    /\ UNCHANGED <<chatVars, now, startupVars>>

\* the results list after the loop has handled images[1..n] without raising
RECURSIVE batch_results(_, _, _, _, _)
batch_results(db, images, user_id, draws, n) ==
    IF n = 0 THEN <<>>
    ELSE IF ~is_image(images[n])
    THEN batch_results(db, images, user_id, draws, n - 1)
    ELSE Append(batch_results(db, images, user_id, draws, n - 1),
                [filename |-> images[n].filename,
                 result |-> service_recognize_food(db, draws[n], user_id)])

\* POST /food-recognition/batch : the exchange it produces.  The loop has no
\* try block of its own: the first upload that raises ends the request.
route_recognize_food_batch(db, images, user_id, draws) ==
    LET route == "POST /food-recognition/batch"
        request == [images |-> images, user_id |-> user_id]
        bad == {i \in 1..Len(images) : upload_error(images[i]) # <<>>}
        first == CHOOSE i \in bad : \A j \in bad : i <= j
        results == batch_results(db, images, user_id, draws, Len(images))
    IN  IF bad # {}
        THEN Failed(route, request, 500,
                    <<"Batch recognition failed: ">> \o upload_error(images[first]))
        ELSE Ok(route, request,
                [success |-> TRUE,
                 data |-> [results |-> results, total_images |-> Len(results)]])

\* The loop of the batch handler run from images[i] on: the position of the
\* first image whose read suspends it, or 0 when the handler reaches its
\* return or an exception before any such read.
RECURSIVE next_read(_, _)
next_read(images, i) ==
    IF i > Len(images) THEN 0
    ELSE IF images[i].content_type = None THEN 0
    ELSE IF ~is_image(images[i]) THEN next_read(images, i + 1)
    ELSE IF suspends_in_read(images[i]) THEN i
    ELSE IF ~images[i].decodable THEN 0
    ELSE next_read(images, i + 1)

\* POST /food-recognition/batch from its start to the first read that
\* suspends, or to its response when no read does
recognize_food_batch(images, user_id, draws) ==
    /\ LET pc == next_read(images, 1)
       IN  IF pc # 0
           THEN /\ Cardinality(tasks) < MaxTasks
                /\ tasks' = hold(tasks, [route |-> "POST /food-recognition/batch",
                                         copy |-> 0,
                                         request |-> [images |-> images,
                                                      user_id |-> user_id],
                                         draws |-> draws,
                                         pc |-> pc])
                /\ UNCHANGED last
           ELSE /\ last' = route_recognize_food_batch(food_db, images, user_id, draws)
                /\ UNCHANGED tasks
    /\ UNCHANGED <<chatVars, now, startupVars>>

\* the event loop resumes POST /food-recognition/batch after the read of
\* images[task.pc]: Image.open and the recognition of that image, then the
\* loop up to the next read that suspends, or to the response
resume_recognize_food_batch(task) ==
    /\ task.route = "POST /food-recognition/batch"
    /\ resumable(tasks, task)
    /\ LET images == task.request.images
           pc == IF images[task.pc].decodable THEN next_read(images, task.pc + 1)
                 ELSE 0
       IN  IF pc # 0
           THEN /\ tasks' = hold(tasks \ {task}, [task EXCEPT !.pc = pc])
                /\ UNCHANGED last
           ELSE /\ tasks' = tasks \ {task}
                /\ last' = route_recognize_food_batch(food_db, images,
                                                      task.request.user_id, task.draws)
    /\ UNCHANGED <<chatVars, now, startupVars>>

\* GET /food-recognition/nutrition/{food_name} : the exchange it produces
route_get_nutrition_info(db, food_name) ==
    LET route == "GET /food-recognition/nutrition/{food_name}"
        request == [food_name |-> food_name]
        r == service_get_nutrition_info(db, food_name)
    IN  IF r.raised
        THEN Failed(route, request, 500, <<"Nutrition lookup failed: ">> \o r.error)
        ELSE Ok(route, request, [success |-> TRUE, data |-> r.value])

get_nutrition_info(food_name) ==
    /\ last' = route_get_nutrition_info(food_db, food_name)
    /\ UNCHANGED <<chatVars, now, startupVars, tasks>>

\* nutrition records _calculate_health_score is applied to: every value on
\* both sides of each threshold, and on it (tenths)
ScoreInputs ==
    { [calories |-> c, protein |-> p, carbs |-> cb, fat |-> f, fiber |-> fb,
       vitamins |-> <<"B12", "D">>, confidence_threshold |-> 90] :
        c \in {0, 2000, 2660, 3000, 3010}, p \in {0, 100, 110, 200, 210},
        cb \in {0, 330}, f \in {0, 100, 110, 150, 160}, fb \in {0, 20, 23, 50, 60} }

\* a call of FoodRecognitionService._calculate_health_score
call_calculate_health_score(nutrition_info) ==
    /\ last' = Returned("_calculate_health_score", nutrition_info,
                        calculate_health_score(nutrition_info))
    /\ UNCHANGED <<chatVars, now, startupVars, tasks>>

FoodScoreNext ==
    \E nutrition_info \in ScoreInputs : call_calculate_health_score(nutrition_info)

FoodNext ==
    \/ \E item \in FoodItems : recognize_food(item.upload, "u1", item.draw)
    \/ \E items \in BatchRequests :
         recognize_food_batch([i \in 1..Len(items) |-> items[i].upload], "u1",
                              [i \in 1..Len(items) |-> items[i].draw])
    \/ \E food_name \in FoodNames : get_nutrition_info(food_name)
    \/ \E task \in tasks : resume_recognize_food(task)
    \/ \E task \in tasks : resume_recognize_food_batch(task)

-----------------------------------------------------------------------------
(* Risk forecasting: RiskForecastingService *)

\* Weights are in kg, heights in cm.  The inputs that stand for risk scores
\* (what a regressor predicts, the maps and scores the scoring functions are
\* called on) are written in thousandths and converted to the double nearest
\* to n / 1000 where they enter the code; every score the code computes or
\* reports is a double.  The two literals of the confidence interval are
\* written in thousandths as well.

risk_types == <<"diabetes", "cardiovascular", "hypertension", "obesity", "stroke">>

\* the number of columns of the synthetic data every scaler and regressor is
\* fitted on in _initialize_models
risk_n_features == 15

encode_smoking_status(status) ==
    CASE status = "never" -> 0
      [] status = "former" -> 1
      [] status = "current" -> 2
      [] OTHER -> 0

encode_activity_level(level) ==
    CASE level = "sedentary" -> 0
      [] level = "light" -> 1
      [] level = "moderate" -> 2
      [] level = "active" -> 3
      [] level = "very_active" -> 4
      [] OTHER -> 2

encode_diet_quality(quality) ==
    CASE quality = "poor" -> 0
      [] quality = "fair" -> 1
      [] quality = "good" -> 2
      [] quality = "excellent" -> 3
      [] OTHER -> 1

\* dict.get(key, default): the default is used only when the key is missing;
\* the route passes request.health_metrics.dict(), which holds every field
dict_get(d, key, default) == IF key \in DOMAIN d THEN d[key] ELSE default

\* _extract_features of the risk service: ten health values and six
\* lifestyle values.  The default of hba1c is the double 5.5; the other
\* defaults are the integers of the code.
risk_extract_features(health_metrics, lifestyle_data) ==
    <<dict_get(health_metrics, "weight", 70),
      dict_get(health_metrics, "height", 170),
      dict_get(health_metrics, "blood_pressure_systolic", 120),
      dict_get(health_metrics, "blood_pressure_diastolic", 80),
      dict_get(health_metrics, "heart_rate", 70),
      dict_get(health_metrics, "cholesterol_total", 200),
      dict_get(health_metrics, "cholesterol_hdl", 50),
      dict_get(health_metrics, "cholesterol_ldl", 120),
      dict_get(health_metrics, "blood_glucose", 90),
      dict_get(health_metrics, "hba1c", decimal(55, 10))>>
    \o
    <<dict_get(lifestyle_data, "age", 40),
      IF dict_get(lifestyle_data, "gender", None) = "male" THEN 1 ELSE 0,
      encode_smoking_status(dict_get(lifestyle_data, "smoking_status", "never")),
      encode_activity_level(dict_get(lifestyle_data, "physical_activity_level", "moderate")),
      encode_diet_quality(dict_get(lifestyle_data, "diet_quality", "fair")),
      dict_get(lifestyle_data, "sleep_hours", 7)>>

\* x ** 2 of a double: the correctly rounded product
float_pow2(x) == float_mul(x, x)

\* bmi = weight / ((height / 100) ** 2), a double, for height # 0 (height 0
\* raises ZeroDivisionError)
bmi(weight, height) ==
    float_truediv(float_of(weight),
                  float_pow2(float_truediv(float_of(height), float_of(100))))

\* min(a, b) and max(a, b) of Python: the first argument unless the second is
\* strictly below (above) it
py_min(a, b) == IF float_lt(b, a) THEN b ELSE a
py_max(a, b) == IF float_gt(b, a) THEN b ELSE a

\* max(0, min(1, x)) of a double
unit_interval(x) == py_max(float_zero, py_min(float_of(1), x))

clamp(lo, hi, v) == IF v < lo THEN lo ELSE IF v > hi THEN hi ELSE v

\* base_risk after the age, the blood pressure, the weight and the activity
\* level have been weighed
age_factor(base_risk, age) ==
    IF age > 65 THEN float_add(base_risk, decimal(1, 10))
    ELSE IF age > 45 THEN float_add(base_risk, decimal(5, 100))
    ELSE base_risk

\* the age factor whose middle band starts at 45 itself
age_factor_from45(base_risk, age) ==
    IF age > 65 THEN float_add(base_risk, decimal(1, 10))
    ELSE IF age >= 45 THEN float_add(base_risk, decimal(5, 100))
    ELSE base_risk

blood_pressure_factor(base_risk, bp_systolic) ==
    IF bp_systolic > 140 THEN float_add(base_risk, decimal(15, 100))
    ELSE IF bp_systolic > 130 THEN float_add(base_risk, decimal(8, 100))
    ELSE base_risk

weight_factor(base_risk, body_mass) ==
    IF float_gt(body_mass, float_of(30)) THEN float_add(base_risk, decimal(12, 100))
    ELSE IF float_gt(body_mass, float_of(25)) THEN float_add(base_risk, decimal(6, 100))
    ELSE base_risk

activity_level_factor(base_risk, activity_level) ==
    IF activity_level = "sedentary" THEN float_add(base_risk, decimal(8, 100))
    ELSE IF activity_level \in {"very_active", "active"}
    THEN float_sub(base_risk, decimal(5, 100))
    ELSE base_risk

\* _mock_risk_calculation that adds a surcharge for the stroke category
mock_risk_calculation_typed(risk_type, health_metrics, lifestyle_data) ==
    unit_interval(
        activity_level_factor(
            weight_factor(
                blood_pressure_factor(
                    age_factor(decimal(IF risk_type = "stroke" THEN 15 ELSE 10, 100),
                               dict_get(lifestyle_data, "age", 40)),
                    dict_get(health_metrics, "blood_pressure_systolic", 120)),
                bmi(dict_get(health_metrics, "weight", 70),
                    dict_get(health_metrics, "height", 170))),
            dict_get(lifestyle_data, "physical_activity_level", "moderate")))

\* _mock_risk_calculation whose middle age band starts at 45 itself
mock_risk_calculation_from45(risk_type, health_metrics, lifestyle_data) ==
    unit_interval(
        activity_level_factor(
            weight_factor(
                blood_pressure_factor(
                    age_factor_from45(decimal(1, 10), dict_get(lifestyle_data, "age", 40)),
                    dict_get(health_metrics, "blood_pressure_systolic", 120)),
                bmi(dict_get(health_metrics, "weight", 70),
                    dict_get(health_metrics, "height", 170))),
            dict_get(lifestyle_data, "physical_activity_level", "moderate")))

\* _mock_risk_calculation, a double, for height # 0 (height 0 raises
\* ZeroDivisionError): base_risk starts at 0.1 and passes through the four
\* factors in the order of the code
mock_risk_calculation(risk_type, health_metrics, lifestyle_data) ==
    unit_interval(
        activity_level_factor(
            weight_factor(
                blood_pressure_factor(
                    age_factor(decimal(1, 10), dict_get(lifestyle_data, "age", 40)),
                    dict_get(health_metrics, "blood_pressure_systolic", 120)),
                bmi(dict_get(health_metrics, "weight", 70),
                    dict_get(health_metrics, "height", 170))),
            dict_get(lifestyle_data, "physical_activity_level", "moderate")))

\* the doubles of a map of risks written in thousandths
risk_floats(thousandths) ==
    [t \in DOMAIN thousandths |-> decimal(thousandths[t], 1000)]

\* [pred for pred in risk_predictions.values()], in the order of the keys present
risk_values(risk_predictions, present) ==
    <<>> \o [i \in 1..Len(present) |-> risk_predictions[present[i]]]

\* sum(values) / len(values): sum() adds the values to 0 one after the other
py_average(values) ==
    float_truediv(add_each(float_zero, values, 1, Len(values)), float_of(Len(values)))

\* (1 - avg_risk) * 100 for a non-empty map of risks: the keys are in the
\* order of risk_types
health_percent(risk_predictions) ==
    float_mul(float_sub(float_of(1),
                        py_average(risk_values(risk_predictions,
                                               SelectSeq(risk_types,
                                                         LAMBDA t : t \in DOMAIN risk_predictions)))),
              float_of(100))

\* int((1 - avg_risk) * 100), clamped: int() drops the fraction
calculate_overall_health_score(risk_predictions) ==
    clamp(0, 100, float_int(health_percent(risk_predictions)))

categorize_risk(risk_score) ==
    IF float_lt(risk_score, decimal(1, 10)) THEN "low"
    ELSE IF float_lt(risk_score, decimal(3, 10)) THEN "moderate"
    ELSE "high"

\* _predict_trend whose upper threshold includes 0.3
predict_trend_inclusive(risk_type, current_risk) ==
    IF float_lt(current_risk, decimal(1, 10)) THEN "stable"
    ELSE IF ~float_gt(current_risk, decimal(3, 10)) THEN "increasing"
    ELSE "rapidly_increasing"

predict_trend(risk_type, current_risk) ==
    IF float_lt(current_risk, decimal(1, 10)) THEN "stable"
    ELSE IF float_lt(current_risk, decimal(3, 10)) THEN "increasing"
    ELSE "rapidly_increasing"

\* _identify_risk_factors that flags hypertension from the lower pressure tier
identify_risk_factors_elevated(health_metrics, lifestyle_data) ==
    LET age == dict_get(lifestyle_data, "age", 40)
        bp_systolic == dict_get(health_metrics, "blood_pressure_systolic", 120)
        weight == dict_get(health_metrics, "weight", 70)
        height == dict_get(health_metrics, "height", 170)
        activity_level == dict_get(lifestyle_data, "physical_activity_level", "moderate")
    IN  (IF age > 65 THEN <<[factor |-> "age", level |-> "high"]>> ELSE <<>>)
        \o (IF bp_systolic >= 130
            THEN <<[factor |-> "hypertension", level |-> "high"]>> ELSE <<>>)
        \o (IF float_gt(bmi(weight, height), float_of(30))
            THEN <<[factor |-> "obesity", level |-> "high"]>> ELSE <<>>)
        \o (IF activity_level = "sedentary"
            THEN <<[factor |-> "physical_inactivity", level |-> "moderate"]>> ELSE <<>>)

\* the factors flagged, by name, in the order they are appended
identify_risk_factors(health_metrics, lifestyle_data) ==
    LET age == dict_get(lifestyle_data, "age", 40)
        bp_systolic == dict_get(health_metrics, "blood_pressure_systolic", 120)
        weight == dict_get(health_metrics, "weight", 70)
        height == dict_get(health_metrics, "height", 170)
        activity_level == dict_get(lifestyle_data, "physical_activity_level", "moderate")
    IN  (IF age > 65 THEN <<[factor |-> "age", level |-> "high"]>> ELSE <<>>)
        \o (IF bp_systolic > 140
            THEN <<[factor |-> "hypertension", level |-> "high"]>> ELSE <<>>)
        \o (IF float_gt(bmi(weight, height), float_of(30))
            THEN <<[factor |-> "obesity", level |-> "high"]>> ELSE <<>>)
        \o (IF activity_level = "sedentary"
            THEN <<[factor |-> "physical_inactivity", level |-> "moderate"]>> ELSE <<>>)

generate_recommendations(risk_predictions, risk_factors, health_metrics, lifestyle_data) ==
    LET bp_systolic == dict_get(health_metrics, "blood_pressure_systolic", 120)
        weight == dict_get(health_metrics, "weight", 70)
        height == dict_get(health_metrics, "height", 170)
        activity_level == dict_get(lifestyle_data, "physical_activity_level", "moderate")
    IN  (IF bp_systolic > 130
         THEN <<[category |-> "cardiovascular", priority |-> "high"]>> ELSE <<>>)
        \o (IF float_gt(bmi(weight, height), float_of(25))
            THEN <<[category |-> "weight_management", priority |-> "moderate"]>> ELSE <<>>)
        \o (IF activity_level \in {"sedentary", "light"}
            THEN <<[category |-> "physical_activity", priority |-> "high"]>> ELSE <<>>)

\* the entry forecast_risk reports for one category and its score
risk_prediction_entry(risk_type, risk_score) ==
    [probability |-> risk_score,
     risk_level |-> categorize_risk(risk_score),
     trend |-> predict_trend(risk_type, risk_score)]

\* the first key of self.risk_models: keys are kept in insertion order, the
\* order of risk_types
first_key(models) ==
    risk_types[CHOOSE i \in 1..Len(risk_types) :
                  /\ risk_types[i] \in models
                  /\ \A j \in 1..(i - 1) : risk_types[j] \notin models]

\* one pass of the loop of forecast_risk: the score of risk_type, or the
\* exception the pass raises.  A category with a scaler goes through
\* transform and predict and is cut to [0, 1]; a category without one gets
\* the fallback score, whose body mass index divides by the height.
category_score(scalers, fitted, risk_type, features, health_metrics, lifestyle_data, prediction) ==
    IF risk_type \in scalers
    THEN IF risk_type \notin fitted
         THEN [raised |-> TRUE, error |-> "This StandardScaler instance is not fitted yet"]
         ELSE IF Len(features) # risk_n_features
         THEN \* self.scalers[risk_type].transform([features]) rejects the row
              [raised |-> TRUE,
               error |-> "X has a different number of features than the scaler was fitted on"]
         ELSE IF None \in {features[i] : i \in 1..10}
         THEN [raised |-> TRUE, error |-> "the row holds None"]
         ELSE [raised |-> FALSE,
               value |-> unit_interval(decimal(prediction[risk_type], 1000))]
    ELSE IF dict_get(health_metrics, "height", 170) = 0
         THEN [raised |-> TRUE, error |-> "float division by zero"]
         ELSE [raised |-> FALSE,
               value |-> mock_risk_calculation(risk_type, health_metrics, lifestyle_data)]

\* the dictionary forecast_risk returns for the scores of its loop
forecast_result(risk_predictions, risk_factors, health_metrics, lifestyle_data, time_horizon) ==
    [time_horizon_years |-> time_horizon,
     overall_health_score |-> calculate_overall_health_score(risk_predictions),
     risk_predictions |->
         [t \in DOMAIN risk_predictions |-> risk_prediction_entry(t, risk_predictions[t])],
     risk_factors |-> risk_factors,
     recommendations |->
         generate_recommendations(risk_predictions, risk_factors,
                                  health_metrics, lifestyle_data),
     confidence_interval |-> [lower |-> 800, upper |-> 950],
     last_updated |-> "2024-01-01T00:00:00Z"]

\* forecast_risk after its loop: scores holds the outcome of every pass.  The
\* first pass that raises, in the order of the keys, ends the call.
forecast_from_scores(scores, health_metrics, lifestyle_data, time_horizon) ==
    LET failed(why) == [raised |-> TRUE, error |-> <<"Risk forecasting failed: ", why>>]
    IN  IF \E t \in DOMAIN scores : scores[t].raised
        THEN failed(scores[first_key({t \in DOMAIN scores : scores[t].raised})].error)
        ELSE IF DOMAIN scores = {}
        THEN \* no prediction was made: the average divides by zero
             failed("division by zero")
        ELSE IF dict_get(health_metrics, "height", 170) = 0
        THEN \* the body mass index of _identify_risk_factors
             failed("float division by zero")
        ELSE [raised |-> FALSE,
              value |-> forecast_result([t \in DOMAIN scores |-> scores[t].value],
                                        identify_risk_factors(health_metrics, lifestyle_data),
                                        health_metrics, lifestyle_data, time_horizon)]

\* forecast_risk.  models, scalers and fitted are the startup outcome;
\* prediction gives, per risk type, what the regressor's predict returns when
\* it is reached (thousandths).
service_forecast_risk(models, scalers, fitted, health_metrics, lifestyle_data, time_horizon, user_id, prediction) ==
    forecast_from_scores(
        [t \in models |->
            category_score(scalers, fitted, t,
                           risk_extract_features(health_metrics, lifestyle_data),
                           health_metrics, lifestyle_data, prediction)],
        health_metrics, lifestyle_data, time_horizon)

service_get_risk_factors ==
    [risk_factors |->
        <<[name |-> "age", modifiable |-> FALSE],
          [name |-> "blood_pressure", modifiable |-> TRUE],
          [name |-> "weight", modifiable |-> TRUE],
          [name |-> "physical_activity", modifiable |-> TRUE],
          [name |-> "smoking", modifiable |-> TRUE]>>,
     total_factors |-> 5]

\* what suggest_interventions returns for the interventions it chose
interventions_result(interventions, user_id) ==
    [interventions |-> interventions,
     total_count |-> Len(interventions),
     personalization_level |-> IF user_id \notin {None, ""} THEN "high" ELSE "moderate"]

\* suggest_interventions that waits for the upper pressure tier
service_suggest_interventions_upper(health_metrics, lifestyle_data, user_id) ==
    LET bp_systolic == dict_get(health_metrics, "blood_pressure_systolic", 120)
        weight == dict_get(health_metrics, "weight", 70)
        height == dict_get(health_metrics, "height", 170)
        activity_level == dict_get(lifestyle_data, "physical_activity_level", "moderate")
    IN  IF height = 0
        THEN [raised |-> TRUE, error |-> <<"float division by zero">>]
        ELSE [raised |-> FALSE,
              value |-> interventions_result(
                  (IF bp_systolic > 140
                   THEN <<[type |-> "dietary", name |-> "DASH Diet"]>> ELSE <<>>)
                  \o (IF float_gt(bmi(weight, height), float_of(25))
                      THEN <<[type |-> "lifestyle", name |-> "Calorie Restriction"]>>
                      ELSE <<>>)
                  \o (IF activity_level \in {"sedentary", "light"}
                      THEN <<[type |-> "exercise", name |-> "Progressive Walking Program"]>>
                      ELSE <<>>),
                  user_id)]

\* suggest_interventions; raises ZeroDivisionError for height 0
service_suggest_interventions(health_metrics, lifestyle_data, user_id) ==
    LET bp_systolic == dict_get(health_metrics, "blood_pressure_systolic", 120)
        weight == dict_get(health_metrics, "weight", 70)
        height == dict_get(health_metrics, "height", 170)
        activity_level == dict_get(lifestyle_data, "physical_activity_level", "moderate")
    IN  IF height = 0
        THEN [raised |-> TRUE, error |-> <<"float division by zero">>]
        ELSE [raised |-> FALSE,
              value |-> interventions_result(
                  (IF bp_systolic > 130
                   THEN <<[type |-> "dietary", name |-> "DASH Diet"]>> ELSE <<>>)
                  \o (IF float_gt(bmi(weight, height), float_of(25))
                      THEN <<[type |-> "lifestyle", name |-> "Calorie Restriction"]>>
                      ELSE <<>>)
                  \o (IF activity_level \in {"sedentary", "light"}
                      THEN <<[type |-> "exercise", name |-> "Progressive Walking Program"]>>
                      ELSE <<>>),
                  user_id)]

-----------------------------------------------------------------------------
(* Risk forecasting: inputs *)

\* scenarios of a comparison request
MaxScenarios == 2

Metrics(weight, height, systolic) ==
    [weight |-> weight, height |-> height, blood_pressure_systolic |-> systolic,
     blood_pressure_diastolic |-> 80, heart_rate |-> 70, cholesterol_total |-> None,
     cholesterol_hdl |-> None, cholesterol_ldl |-> None, blood_glucose |-> None,
     hba1c |-> None]

Lifestyle(age, activity) ==
    [age |-> age, gender |-> "male", smoking_status |-> "never",
     alcohol_consumption |-> "none", physical_activity_level |-> activity,
     diet_quality |-> "fair", stress_level |-> "low", sleep_hours |-> 7,
     family_history |-> <<>>]

RiskRequests ==
    { [health_metrics |-> Metrics(70, 170, 120), lifestyle_data |-> Lifestyle(40, "moderate"),
       time_horizon_years |-> 5, user_id |-> None],
      [health_metrics |-> Metrics(95, 170, 150), lifestyle_data |-> Lifestyle(70, "sedentary"),
       time_horizon_years |-> 5, user_id |-> "u1"],
      [health_metrics |-> Metrics(80, 175, 135), lifestyle_data |-> Lifestyle(50, "light"),
       time_horizon_years |-> 10, user_id |-> "u1"],
      [health_metrics |-> Metrics(80, 0, 120), lifestyle_data |-> Lifestyle(30, "active"),
       time_horizon_years |-> 5, user_id |-> None] }

\* what the regressors predict when they are reached, per risk type
RiskDraws ==
    { [t \in Range(risk_types) |-> 50],
      [t \in Range(risk_types) |-> IF t = "obesity" THEN 420 ELSE 180] }

-----------------------------------------------------------------------------
(* Risk forecasting: routes (routes/risk_forecasting.py) *)

\* the outcomes of RiskForecastingService._initialize_models.  The loop adds
\* the regressor of a type, then its scaler, then fits the scaler, and an
\* exception ends the whole loop: kj[1] types were completed, and the next
\* one was left with nothing (kj[2] = 0), with its regressor alone (1) or with
\* its regressor and an unfitted scaler (2).
RiskStartups ==
    { [models |-> {risk_types[i] : i \in 1..(kj[1] + (IF kj[2] >= 1 THEN 1 ELSE 0))},
       scalers |-> {risk_types[i] : i \in 1..(kj[1] + (IF kj[2] = 2 THEN 1 ELSE 0))},
       fitted |-> {risk_types[i] : i \in 1..kj[1]}] :
        kj \in {x \in (0..Len(risk_types)) \X (0..2) : x[2] = 0 \/ x[1] < Len(risk_types)} }

\* forecast_risk on the requests of the model in every startup outcome,
\* evaluated once
ForecastTable ==
    [startup \in RiskStartups, request \in RiskRequests, prediction \in RiskDraws |->
        service_forecast_risk(startup.models, startup.scalers, startup.fitted,
                              request.health_metrics, request.lifestyle_data,
                              request.time_horizon_years, request.user_id, prediction)]

\* the startup outcome that left these keys
startup_of(models, scalers, fitted) ==
    [models |-> models, scalers |-> scalers, fitted |-> fitted]

\* the exchange of POST /risk-forecast/ for the outcome r of forecast_risk
forecast_exchange(route, request, r) ==
    IF r.raised
    THEN Failed(route, request, 500, <<"Risk forecasting failed: ">> \o r.error)
    ELSE Ok(route, request, [success |-> TRUE, data |-> r.value])

\* POST /risk-forecast/ : the exchange it produces
route_forecast_health_risk(models, scalers, fitted, request, prediction) ==
    forecast_exchange("POST /risk-forecast/", request,
                      ForecastTable[startup_of(models, scalers, fitted), request, prediction])

forecast_health_risk(request) ==
    /\ \E prediction \in RiskDraws :
         last' = route_forecast_health_risk(risk_models, risk_scalers, risk_fitted,
                                            request, prediction)
    /\ UNCHANGED <<chatVars, now, startupVars, tasks>>

\* one entry of the comparison for the outcome r of forecast_risk:
\* scenario_id with result, or scenario_id with error
scenario_entry(i, r) ==
    IF r.raised
    THEN [scenario_id |-> i - 1, error |-> r.error]
    ELSE [scenario_id |-> i - 1, scenario_name |-> <<"Scenario ", i>>,
          result |-> r.value]

\* the body of the comparison for its entries
comparison_body(results) ==
    [success |-> TRUE,
     data |-> [scenarios |-> results, total_scenarios |-> Len(results)]]

\* POST /risk-forecast/comparison : the exchange it produces
route_compare_scenarios(models, scalers, fitted, requests, predictions) ==
    Ok("POST /risk-forecast/comparison", requests,
       comparison_body(
           [i \in 1..Len(requests) |->
               scenario_entry(i, ForecastTable[startup_of(models, scalers, fitted),
                                               requests[i], predictions[i]])]))

compare_scenarios(requests, predictions) ==
    /\ last' = route_compare_scenarios(risk_models, risk_scalers, risk_fitted,
                                       requests, predictions)
    /\ UNCHANGED <<chatVars, now, startupVars, tasks>>

\* GET /risk-forecast/risk-factors
get_risk_factors ==
    /\ last' = Ok("GET /risk-forecast/risk-factors", [none |-> TRUE],
                  [success |-> TRUE, data |-> service_get_risk_factors])
    /\ UNCHANGED <<chatVars, now, startupVars, tasks>>

\* suggest_interventions on the requests of the model, evaluated once
InterventionTable ==
    [request \in RiskRequests |->
        service_suggest_interventions(request.health_metrics, request.lifestyle_data,
                                      request.user_id)]

\* POST /risk-forecast/interventions : the exchange it produces
route_suggest_interventions(request) ==
    LET route == "POST /risk-forecast/interventions"
        r == InterventionTable[request]
    IN  IF r.raised
        THEN Failed(route, request, 500, <<"Intervention suggestion failed: ">> \o r.error)
        ELSE Ok(route, request, [success |-> TRUE, data |-> r.value])

suggest_interventions(request) ==
    /\ last' = route_suggest_interventions(request)
    /\ UNCHANGED <<chatVars, now, startupVars, tasks>>

-----------------------------------------------------------------------------
(* Risk forecasting: the scoring functions called directly *)

\* inputs of _mock_risk_calculation.  Weight and height give the body mass
\* indices 24.2, 32, 25 and 30, the quotient 49 / 1.4^2 (25 in exact
\* arithmetic, 25.000000000000004 as a double) and height 0; pressures and ages
\* lie on and above each threshold.
MockRiskInputs ==
    { [health_metrics |-> Metrics(b[1], b[2], bp),
       lifestyle_data |-> Lifestyle(70, "sedentary")] :
        b \in {<<70, 170>>, <<72, 150>>, <<100, 200>>, <<120, 200>>, <<49, 140>>,
               <<80, 0>>},
        bp \in {130, 140, 150} }
    \cup
    { [health_metrics |-> Metrics(100, 200, 140), lifestyle_data |-> Lifestyle(age, act)] :
        age \in {45, 46, 65, 70},
        act \in {"sedentary", "moderate", "active", "very_active"} }

\* _mock_risk_calculation on the inputs above, evaluated once
MockRiskCalls ==
    [risk_type \in Range(risk_types), input \in MockRiskInputs |->
        IF input.health_metrics.height = 0
        THEN [raised |-> TRUE, error |-> <<"float division by zero">>]
        ELSE [raised |-> FALSE,
              value |-> mock_risk_calculation(risk_type, input.health_metrics,
                                              input.lifestyle_data)]]

\* a call of RiskForecastingService._mock_risk_calculation
call_mock_risk_calculation(risk_type, input) ==
    /\ last' = outcome_of("_mock_risk_calculation",
                          [risk_type |-> risk_type, input |-> input],
                          MockRiskCalls[risk_type, input])
    /\ UNCHANGED <<chatVars, now, startupVars, tasks>>

\* maps of per-category risks (thousandths) the aggregate score is applied to,
\* the empty map among them
RiskMaps ==
    { [t \in Range(risk_types) |-> v] : v \in {0, 50, 123, 180, 340, 800, 1000} }
    \cup RiskDraws
    \cup { [t \in {"diabetes"} |-> v] : v \in {123, 340, 550} }
    \cup { [t \in {"diabetes", "cardiovascular"} |-> IF t = "diabetes" THEN 57 ELSE 300],
           [t \in {"diabetes", "cardiovascular", "hypertension"} |->
                IF t = "diabetes" THEN 123 ELSE IF t = "cardiovascular" THEN 300 ELSE 50],
           [t \in {} |-> 0] }

\* _calculate_overall_health_score on the maps above, evaluated once; the
\* empty map makes the average divide by zero
HealthScoreCalls ==
    [risk_predictions \in RiskMaps |->
        IF DOMAIN risk_predictions = {}
        THEN [raised |-> TRUE, error |-> <<"division by zero">>]
        ELSE [raised |-> FALSE,
              value |-> calculate_overall_health_score(risk_floats(risk_predictions))]]

\* a call of RiskForecastingService._calculate_overall_health_score
call_calculate_overall_health_score(risk_predictions) ==
    /\ last' = outcome_of("_calculate_overall_health_score", risk_predictions,
                          HealthScoreCalls[risk_predictions])
    /\ UNCHANGED <<chatVars, now, startupVars, tasks>>

\* risk scores below, on and above the tier thresholds (thousandths)
RiskScores == {0, 50, 99, 100, 101, 299, 300, 301, 1000}

\* the entry forecast_risk builds for one category from its score
call_risk_prediction_entry(risk_type, risk_score) ==
    /\ last' = Returned("forecast_risk.risk_predictions",
                        [risk_type |-> risk_type, risk_score |-> risk_score],
                        risk_prediction_entry(risk_type, decimal(risk_score, 1000)))
    /\ UNCHANGED <<chatVars, now, startupVars, tasks>>

RiskScoreNext ==
    \/ \E t \in Range(risk_types), input \in MockRiskInputs :
          call_mock_risk_calculation(t, input)
    \/ \E risk_predictions \in RiskMaps :
          call_calculate_overall_health_score(risk_predictions)
    \/ \E t \in Range(risk_types), risk_score \in RiskScores :
          call_risk_prediction_entry(t, risk_score)

-----------------------------------------------------------------------------
(* Risk forecasting: the advisory rules called directly *)

\* inputs of the advisory rules: pressures and body mass indices below, on and
\* above each threshold (BMI 24.2, 25, 25.000000000000004, 26, 30, 31), and
\* height 0
RuleInputs ==
    { [health_metrics |-> Metrics(b[1], b[2], bp), lifestyle_data |-> Lifestyle(66, "light")] :
        b \in {<<70, 170>>, <<100, 200>>, <<49, 140>>, <<104, 200>>, <<120, 200>>,
               <<124, 200>>, <<80, 0>>},
        bp \in {130, 131, 140, 141} }
    \cup
    { [health_metrics |-> Metrics(70, 170, 130), lifestyle_data |-> Lifestyle(age, act)] :
        age \in {65, 66}, act \in {"sedentary", "light", "moderate"} }

\* the value a rule returns, or the ZeroDivisionError of the body mass index
rule_outcome(health_metrics, value) ==
    IF health_metrics.height = 0
    THEN [raised |-> TRUE, error |-> <<"float division by zero">>]
    ELSE [raised |-> FALSE, value |-> value]

\* the three rules on the inputs above, evaluated once; _generate_recommendations
\* gets the arguments forecast_risk passes
IdentifyCalls ==
    [input \in RuleInputs |->
        rule_outcome(input.health_metrics,
                     identify_risk_factors(input.health_metrics, input.lifestyle_data))]

RecommendationCalls ==
    [input \in RuleInputs, risk_predictions \in RiskDraws |->
        rule_outcome(input.health_metrics,
                     generate_recommendations(risk_predictions,
                                              IdentifyCalls[input].value,
                                              input.health_metrics,
                                              input.lifestyle_data))]

InterventionCalls ==
    [input \in RuleInputs, user_id \in {None, "u1"} |->
        service_suggest_interventions(input.health_metrics, input.lifestyle_data,
                                      user_id)]

\* a call of RiskForecastingService._identify_risk_factors
call_identify_risk_factors(input) ==
    /\ last' = outcome_of("_identify_risk_factors", input, IdentifyCalls[input])
    /\ UNCHANGED <<chatVars, now, startupVars, tasks>>

\* a call of RiskForecastingService._generate_recommendations
call_generate_recommendations(input, risk_predictions) ==
    /\ last' = outcome_of("_generate_recommendations", input,
                          RecommendationCalls[input, risk_predictions])
    /\ UNCHANGED <<chatVars, now, startupVars, tasks>>

\* a call of RiskForecastingService.suggest_interventions
call_suggest_interventions(input, user_id) ==
    /\ last' = outcome_of("suggest_interventions", input,
                          InterventionCalls[input, user_id])
    /\ UNCHANGED <<chatVars, now, startupVars, tasks>>

RiskRulesNext ==
    \/ \E input \in RuleInputs : call_identify_risk_factors(input)
    \/ \E input \in RuleInputs, risk_predictions \in RiskDraws :
          call_generate_recommendations(input, risk_predictions)
    \/ \E input \in RuleInputs, user_id \in {None, "u1"} :
          call_suggest_interventions(input, user_id)

RiskNext ==
    \/ \E request \in RiskRequests : forecast_health_risk(request)
    \/ \E n \in 0..MaxScenarios :
         \E requests \in [1..n -> RiskRequests], predictions \in [1..n -> RiskDraws] :
            compare_scenarios(requests, predictions)
    \/ get_risk_factors
    \/ \E request \in RiskRequests : suggest_interventions(request)

-----------------------------------------------------------------------------
(* Startup *)

Init ==
    /\ conversations = <<>>
    /\ issued = {}
    /\ journal = [c \in ConvIds |-> <<>>]
    /\ now = 0
    /\ model \in Models
    /\ food_db = food_database
    /\ tasks = {}
    /\ \E startup \in RiskStartups :
         /\ risk_models = startup.models
         /\ risk_scalers = startup.scalers
         /\ risk_fitted = startup.fitted
    /\ last = [route |-> "none", request |-> [none |-> TRUE], status |-> 0]

Next ==
    \/ ChatNext
    \/ ActivityNext
    \/ FoodNext
    \/ RiskNext
    \/ FoodScoreNext
    \/ RiskScoreNext
    \/ ReplyNext
    \/ DetectNext
    \/ RiskRulesNext
    \/ LoopNext

Spec == Init /\ [][Next]_vars

\* the chat route group alone, on a service whose startup completed
InitChat ==
    /\ Init
    /\ model = "fitted"
    /\ risk_models = Range(risk_types)
    /\ risk_scalers = Range(risk_types)
    /\ risk_fitted = Range(risk_types)

SpecChat == InitChat /\ [][ChatNext]_vars

\* the chat handlers run concurrently on the event loop
SpecLoop == InitChat /\ [][LoopNext]_vars

\* the activity route group alone; the classifier is fitted or missing
InitActivity ==
    /\ Init
    /\ risk_models = Range(risk_types)
    /\ risk_scalers = Range(risk_types)
    /\ risk_fitted = Range(risk_types)

SpecActivity == InitActivity /\ [][ActivityNext]_vars

\* the activity service alone, called on windows around its thresholds
SpecDetect == InitActivity /\ [][DetectNext]_vars

\* the food route group alone
SpecFood == InitChat /\ [][FoodNext]_vars

\* the chat reply generation alone
SpecReply == InitChat /\ [][ReplyNext]_vars

\* the food health score alone, over nutrition records around its thresholds
SpecHealthScore == InitChat /\ [][FoodScoreNext]_vars

\* the risk scoring functions alone
SpecRiskScore == InitChat /\ [][RiskScoreNext]_vars

\* the advisory rules of the risk service alone
SpecRiskRules == InitChat /\ [][RiskRulesNext]_vars

\* the risk route group alone, after every outcome of the startup training
InitRisk ==
    /\ Init
    /\ model = "fitted"

SpecRisk == InitRisk /\ [][RiskNext]_vars

\* the two calls that hand an extracted feature vector to a fitted scaler:
\* detect_activity and POST /risk-forecast/, after every outcome of both
\* startup trainings
FeatureCountNext ==
    \/ DetectNext
    \/ \E request \in RiskRequests : forecast_health_risk(request)

SpecFeatureCount == Init /\ [][FeatureCountNext]_vars

-----------------------------------------------------------------------------
(* Properties of the chat component *)

HistoryRoute == "GET /chat/conversation/{id}"

\* the log of conversation c is the calls of journal[c]: user message, then reply
LogIsJournal(c) ==
    LET m == conversations[c].messages
        j == journal[c]
    IN  /\ Len(m) = 2 * Len(j)
        /\ \A i \in 1..Len(j) :
             /\ m[2 * i - 1].is_user
             /\ ~m[2 * i].is_user
             /\ m[2 * i - 1].message = j[i].message
             /\ m[2 * i].message = j[i].reply

\* C1: after start_conversation and k completed process_message calls on an open
\* conversation its log has exactly 2k entries, user message then assistant reply
\* per call, in call order, and get_conversation_history returns exactly that log.
C1_HistoryIsCallsInOrder ==
    /\ \A c \in DOMAIN conversations : LogIsJournal(c)
    /\ (last.route = HistoryRoute /\ last.status = 200) =>
         /\ last.request.conversation_id \in DOMAIN conversations
         /\ last.body.data.messages =
              conversations[last.request.conversation_id].messages

\* two calls were made on a conversation and its history was fetched
C1_Witness ==
    /\ last.route = HistoryRoute
    /\ last.status = 200
    /\ Len(journal[last.request.conversation_id]) = 2
    /\ Len(last.body.data.messages) = 4
    /\ journal[last.request.conversation_id][1].message
         # journal[last.request.conversation_id][2].message

\* the ids of the conversations that were deleted: issued once, no longer stored
Deleted == issued \ DOMAIN conversations

\* C2: a deleted conversation never becomes open again, and every
\* get_conversation_history on its id fails with "Conversation not found".
C2_DeletedStaysDeleted ==
    [][\A c \in Deleted :
         /\ c \notin DOMAIN conversations'
         /\ (last'.route = HistoryRoute /\ last'.request.conversation_id = c) =>
              /\ last'.status # 200
              /\ last'.detail[2] = "Conversation not found"]_vars

\* the history of a deleted conversation was asked for, and refused
C2_Witness ==
    /\ last.route = HistoryRoute
    /\ last.request.conversation_id \in Deleted
    /\ last.status # 200

\* C3 (as claimed): every process_message call that returns has appended the user
\* message and then the reply to the log of the conversation whose id it returns,
\* and has set that conversation's last-activity.
C3_EveryCallIsLogged ==
    (last.route = "POST /chat/" /\ last.status = 200) =>
        LET cid == last.body.data.conversation_id
        IN  /\ cid \in DOMAIN conversations
            /\ LET m == conversations[cid].messages
                   n == Len(m)
               IN  /\ n >= 2
                   /\ m[n - 1].is_user
                   /\ ~m[n].is_user
                   /\ m[n - 1].message = last.request.message
                   /\ m[n].message = last.body.data.response
                   /\ conversations[cid].last_activity = m[n].timestamp

\* C4: while a conversation is open its context stays the one it was created with.
C4_ContextFixed ==
    [][\A c \in DOMAIN conversations \cap DOMAIN conversations' :
         conversations'[c].context = conversations[c].context]_vars

\* a message was processed on an open conversation under another context tag
C4_Witness ==
    /\ last.route = "POST /chat/"
    /\ last.status = 200
    /\ last.request.conversation_id \in DOMAIN conversations
    /\ last.request.context # conversations[last.request.conversation_id].context
    /\ Len(conversations[last.request.conversation_id].messages) >= 2

\* a request with fewer than 10 samples on some accelerometer axis
TooFewSamples(request) ==
    \/ Len(request.data.accelerometer_x) < 10
    \/ Len(request.data.accelerometer_y) < 10
    \/ Len(request.data.accelerometer_z) < 10

\* C5 (as claimed): the activity batch answers N requests with N entries whose
\* sample_id runs 0..N-1 in request order; the entry of an item with fewer
\* than 10 accelerometer samples holds an error and no result, and every
\* other entry holds a result and no error.
C5_BatchEntryPerItem ==
    last.route = "POST /activity-detect/batch" =>
        /\ last.status = 200
        /\ Len(last.body.data.results) = Len(last.request)
        /\ \A i \in 1..Len(last.request) :
             LET entry == last.body.data.results[i]
             IN  /\ entry.sample_id = i - 1
                 /\ IF TooFewSamples(last.request[i])
                    THEN "error" \in DOMAIN entry /\ "result" \notin DOMAIN entry
                    ELSE "result" \in DOMAIN entry /\ "error" \notin DOMAIN entry

BatchRoutes ==
    {"POST /activity-detect/batch", "POST /risk-forecast/comparison",
     "POST /food-recognition/batch"}

\* an upload the food batch takes up for processing: one whose declared
\* content type is not a non-image type
TakenUp(upload) == upload.content_type # "text/plain"

\* the items a batch request hands to processing and the entries its response
\* returns
BatchItems == IF last.route = "POST /food-recognition/batch"
              THEN SelectSeq(last.request.images, TakenUp) ELSE last.request

BatchEntries == IF last.route = "POST /risk-forecast/comparison"
                THEN last.body.data.scenarios ELSE last.body.data.results

\* C6 (as claimed): every batch endpoint continues past an item whose
\* processing fails: the request as a whole succeeds and returns one entry
\* per item it took up for processing.
C6_BatchContinuesPastFailure ==
    last.route \in BatchRoutes =>
        /\ last.status = 200
        /\ Len(BatchEntries) = Len(BatchItems)

\* C7 (as claimed): the single-request activity route rejects every request
\* with fewer than 10 samples on the x, y or z accelerometer axis, and no call
\* it makes of the service's detect_activity receives such an axis.
C7_ShortAxisNeverReachesClassifier ==
    last.route = "POST /activity-detect/" =>
        /\ TooFewSamples(last.request) => last.status # 200
        /\ \A i \in 1..Len(last.calls) :
             /\ Len(last.calls[i].x) >= 10
             /\ Len(last.calls[i].y) >= 10
             /\ Len(last.calls[i].z) >= 10

\* C8 (as claimed): a validation failure (an activity request with fewer than
\* 10 accelerometer samples, a food upload whose content type is not an
\* image) is answered with a 4xx status, not a server error.
C8_ValidationFailureIsClientError ==
    /\ (/\ last.route = "POST /activity-detect/"
        /\ Len(last.request.data.accelerometer_x) < 10)
       => last.status \in 400..499
    /\ (/\ last.route = "POST /food-recognition/"
        /\ last.request.image.content_type = "text/plain")
       => last.status \in 400..499

\* C9 (as claimed): a lookup of a food name absent from the food table, or of
\* a conversation id that is not in the store, is answered with a client
\* (4xx) error, distinct from the 500 of an unexpected processing failure.
C9_NotFoundIsLookupError ==
    /\ (/\ last.route = "GET /food-recognition/nutrition/{food_name}"
        /\ str_lower(last.request.food_name) \notin DOMAIN food_db)
       => last.status \in 400..499
    /\ (/\ last.route = HistoryRoute
        /\ last.request.conversation_id \notin DOMAIN conversations)
       => last.status \in 400..499

\* C10 (as claimed): every successful response of every endpoint, the one of
\* DELETE /chat/conversation/{id} included, is an envelope with success = true
\* and a data field.
C10_SuccessEnvelopeHasData ==
    last.status = 200 =>
        /\ last.body.success = TRUE
        /\ "data" \in DOMAIN last.body

NutritionRoute == "GET /food-recognition/nutrition/{food_name}"

\* C11: get_nutrition_info returns as its nutrition record exactly the table
\* entry of the lower-cased name when that is one of the 8 table keys, fails
\* with a not-found error for every other name, and the table stays as
\* _load_food_database built it.
C11_NutritionLookup ==
    /\ food_db = food_database
    /\ Cardinality(DOMAIN food_db) = 8
    /\ last.route = NutritionRoute =>
         LET name == last.request.food_name
         IN  IF str_lower(name) \in DOMAIN food_database
             THEN /\ last.status = 200
                  /\ last.body.data.nutrition = food_database[str_lower(name)]
             ELSE /\ last.status # 200
                  /\ last.detail = <<"Nutrition lookup failed: ", "Food '", name,
                                     "' not found in database">>

C11_Witness ==
    /\ last.route = NutritionRoute
    /\ last.request.food_name = "Apple"
    /\ last.status = 200
    /\ last.body.data.nutrition = food_database["apple"]
    /\ last.body.data.nutrition.calories = 520

SameScoreInputs(n1, n2) ==
    /\ n1.calories = n2.calories
    /\ n1.protein = n2.protein
    /\ n1.fat = n2.fat
    /\ n1.fiber = n2.fiber

\* C12: the food health score depends on calories, protein, fat and fiber
\* only (records equal on these four score the same) and lies in [0,100].
C12_HealthScoreInRange ==
    last.route = "_calculate_health_score" =>
        /\ last.value \in 0..100
        /\ \A n \in ScoreInputs :
             SameScoreInputs(n, last.request) => calculate_health_score(n) = last.value

\* a record whose deltas add up to more than 100 before the clamp, scored 100
C12_Witness ==
    /\ last.route = "_calculate_health_score"
    /\ last.request.calories = 0
    /\ last.request.protein > 200
    /\ last.request.fat = 0
    /\ last.request.fiber > 50
    /\ last.value = 100

\* the delta a documented pair of thresholds gives a value (strictly greater)
Delta(v, high, d_high, low, d_low) ==
    IF v > high THEN d_high ELSE IF v > low THEN d_low ELSE 0

\* 100 plus the documented deltas, clamped to [0,100]; values in tenths
DocumentedScore(n) ==
    LET raw == 100 + Delta(n.calories, 3000, 0 - 20, 2000, 0 - 10)
                   + Delta(n.protein, 200, 10, 100, 5)
                   + Delta(n.fat, 150, 0 - 15, 100, 0 - 10)
                   + Delta(n.fiber, 50, 10, 20, 5)
    IN  IF raw > 100 THEN 100 ELSE IF raw < 0 THEN 0 ELSE raw

\* C13 (amended): the score is 100 plus the documented deltas, clamped, so
\* that the pizza entry (266 kcal, 11 g protein, 10 g fat, 2.3 g fiber) scores
\* 100: -10 for calories, +5 for protein, nothing for fat (10 is not above
\* 10), +5 for fiber.
C13_HealthScoreDeltas ==
    last.route = "_calculate_health_score" =>
        /\ last.value = DocumentedScore(last.request)
        /\ last.request = food_database["pizza"] => last.value = 100

C13_Witness ==
    /\ last.route = "_calculate_health_score"
    /\ last.request = food_database["pizza"]
    /\ last.request.fat = 100
    /\ last.value = 100

\* C13 (as claimed): the score is 100 plus the documented deltas, clamped, so
\* that the pizza entry scores 85.
C13_PizzaScores85 ==
    last.route = "_calculate_health_score" =>
        /\ last.value = DocumentedScore(last.request)
        /\ last.request = food_database["pizza"] => last.value = 85

\* C14: the fallback risk score is the same for every risk category on the
\* same health and lifestyle input, lies in [0,1], and is 0.55, to within the
\* rounding of the additions in double precision, for age 70, systolic 150,
\* BMI 32 (72 kg, 150 cm), sedentary.
C14_FallbackScore ==
    (last.route = "_mock_risk_calculation" /\ "value" \in DOMAIN last) =>
        LET h == last.request.input.health_metrics
            l == last.request.input.lifestyle_data
        IN  /\ float_cmp(last.value, float_zero) >= 0
            /\ float_cmp(last.value, float_of(1)) <= 0
            /\ \A t \in Range(risk_types) :
                  MockRiskCalls[t, last.request.input].value = last.value
            /\ (/\ l.age = 70
                /\ h.blood_pressure_systolic = 150
                /\ h.weight = 72 /\ h.height = 150
                /\ l.physical_activity_level = "sedentary") => near(last.value, 55, 100)

C14_Witness ==
    /\ last.route = "_mock_risk_calculation"
    /\ last.request.risk_type = "stroke"
    /\ last.request.input.lifestyle_data.age = 70
    /\ last.request.input.health_metrics.blood_pressure_systolic = 150
    /\ last.request.input.health_metrics.weight = 72
    /\ last.request.input.health_metrics.height = 150
    /\ last.request.input.lifestyle_data.physical_activity_level = "sedentary"
    /\ "value" \in DOMAIN last
    /\ near(last.value, 55, 100)

\* C15 (as claimed): the aggregate health score of a map of risks is
\* round((1 - mean(risks)) * 100), the nearest integer, and lies in [0,100].
C15_AggregateIsRounded ==
    (last.route = "_calculate_overall_health_score" /\ "value" \in DOMAIN last) =>
        /\ last.value \in 0..100
        /\ last.value = round_digits(health_percent(risk_floats(last.request)), 0)

\* C16: the entry of a risk score p pairs (low, stable) for p < 0.10,
\* (moderate, increasing) for 0.10 <= p < 0.30 and (high, rapidly_increasing)
\* for p >= 0.30.
C16_TierAndTrendPaired ==
    last.route = "forecast_risk.risk_predictions" =>
        LET p == last.request.risk_score
            pair == <<last.value.risk_level, last.value.trend>>
        IN  /\ last.value.probability = decimal(p, 1000)
            /\ p < 100 => pair = <<"low", "stable">>
            /\ (p >= 100 /\ p < 300) => pair = <<"moderate", "increasing">>
            /\ p >= 300 => pair = <<"high", "rapidly_increasing">>

C16_Witness ==
    /\ last.route = "forecast_risk.risk_predictions"
    /\ last.request.risk_score = 300
    /\ last.value.risk_level = "high"
    /\ last.value.trend = "rapidly_increasing"

ForecastRoute == "POST /risk-forecast/"

\* C17 (as claimed): a successful forecast holds a probability for each of
\* the five categories; when the startup training did not complete for some
\* category the forecast still succeeds and that category gets the fallback
\* additive score.
C17_ForecastSurvivesMissingRegressors ==
    (last.route = ForecastRoute /\ last.request.health_metrics.height # 0) =>
        /\ last.status = 200 =>
             DOMAIN last.body.data.risk_predictions = Range(risk_types)
        /\ risk_fitted # Range(risk_types) =>
             /\ last.status = 200
             /\ \A t \in Range(risk_types) \ risk_fitted :
                  last.body.data.risk_predictions[t].probability =
                      mock_risk_calculation(t, last.request.health_metrics,
                                            last.request.lifestyle_data)

\* C18 (as claimed): every successful detect_activity result has a predicted
\* activity from the fixed set of 10, a confidence in [0,1] (0..100
\* hundredths), and a top_predictions list of exactly 3 entries in
\* non-increasing confidence order that starts with the predicted activity
\* and its confidence.
C18_ResultHasTopThree ==
    (/\ last.route = "POST /activity-detect/"
     /\ last.status = 200
     /\ ~TooFewSamples(last.request)) =>
        LET r == last.body.data
            top == r.top_predictions
        IN  /\ Len(activities) = 10
            /\ r.predicted_activity \in Range(activities)
            /\ r.confidence \in 0..100
            /\ Len(top) = 3
            /\ \A i \in 1..(Len(top) - 1) : top[i].confidence >= top[i + 1].confidence
            /\ top[1] = [activity |-> r.predicted_activity, confidence |-> r.confidence]

\* the topic buckets in their order, with the keywords the claim lists
ListedBuckets ==
    <<[bucket |-> "workout", keywords |-> {kw_workout, kw_exercise}],
      [bucket |-> "diet", keywords |-> {kw_diet, kw_food, kw_meal}],
      [bucket |-> "heart", keywords |-> {kw_blood_pressure, kw_heart}],
      [bucket |-> "sleep", keywords |-> {kw_sleep, kw_insomnia}],
      [bucket |-> "stress", keywords |-> {kw_stress, kw_anxiety}],
      [bucket |-> "weight", keywords |-> {kw_weight}],
      [bucket |-> "diabetes", keywords |-> {kw_diabetes}]>>

\* the same buckets, the weight bucket also matching "lose" and "gain"
BucketsWithLoseGain ==
    [ListedBuckets EXCEPT ![6].keywords = {kw_weight, kw_lose, kw_gain}]

\* the first bucket of rules one of whose keywords occurs in message
FirstMatch(rules, message) ==
    LET hits == {i \in 1..Len(rules) :
                    \E kw \in rules[i].keywords : Contains(message, kw)}
    IN  IF hits = {} THEN "default"
        ELSE rules[CHOOSE i \in hits : \A j \in hits : i <= j].bucket

\* C19 (amended): the reply is drawn from the first bucket, in the listed
\* order, one of whose keywords occurs in the lower-cased message, where the
\* weight bucket is matched by "weight", "lose" or "gain"; it is drawn from
\* the default set exactly when no keyword of any bucket occurs.
C19_ReplyBucketFirstMatch ==
    last.route = "_generate_response" =>
        last.value.message[2] =
            FirstMatch(BucketsWithLoseGain, lower(last.request.message))

C19_Witness ==
    /\ last.route = "_generate_response"
    /\ last.request.message = kw_lose \o <<" ">> \o kw_diabetes
    /\ last.value.message[2] = "weight"

\* C19 (as claimed): the reply is drawn from the first bucket whose listed
\* keyword (workout/exercise, diet/food/meal, blood pressure/heart,
\* sleep/insomnia, stress/anxiety, weight, diabetes) occurs in the lower-cased
\* message, and from the default set exactly when none of them occurs.
C19_ReplyBucketListedKeywords ==
    last.route = "_generate_response" =>
        last.value.message[2] = FirstMatch(ListedBuckets, lower(last.request.message))

\* the topic bucket a suggestion list belongs to
SuggestionTopic(suggestions) ==
    CASE suggestions[1] = "Create a personalized workout plan" -> "workout"
      [] suggestions[1] = "Get nutrition analysis for your meals" -> "diet"
      [] suggestions[1] = "Improve your sleep hygiene" -> "sleep"
      [] suggestions[1] = "Practice mindfulness exercises" -> "stress"
      [] OTHER -> "default"

\* C20 (as claimed): the suggestions are the list (at most 3 items) of the
\* bucket the reply was drawn from, and the context tag changes neither the
\* reply bucket nor the suggestions.
C20_SuggestionsFollowReply ==
    last.route = "_generate_response" =>
        /\ Len(last.value.suggestions) <= 3
        /\ \A c \in ReplyContexts :
             LET other == generate_response(last.request.message, c, None)
             IN  /\ other.message = last.value.message
                 /\ other.suggestions = last.value.suggestions
        /\ SuggestionTopic(last.value.suggestions) = last.value.message[2]

-----------------------------------------------------------------------------
(* Properties of the activity service *)

\* a detect_activity call that returned on the path without a classifier
FallbackReturned ==
    /\ last.route = "detect_activity"
    /\ "value" \in DOMAIN last
    /\ model = "None"

\* the threshold ladder on a mean and a standard deviation
Ladder(mean, std) ==
    IF float_gt(mean, decimal(5, 10)) /\ float_gt(std, decimal(3, 10))
    THEN [activity |-> "running", confidence |-> 85]
    ELSE IF float_gt(mean, decimal(2, 10)) /\ float_gt(std, decimal(1, 10))
    THEN [activity |-> "walking", confidence |-> 80]
    ELSE IF float_lt(mean, decimal(1, 10)) /\ float_lt(std, decimal(5, 100))
    THEN [activity |-> "sitting", confidence |-> 90]
    ELSE [activity |-> "standing", confidence |-> 75]

\* sqrt(x^2 + y^2 + z^2) of the accelerometer samples
MagnitudeOf(acc) == acc_magnitude(np_array(acc.x), np_array(acc.y), np_array(acc.z))

\* C21 (as claimed): without a classifier, detect_activity labels the window by
\* the threshold ladder applied to the mean and the standard deviation of the
\* accelerometer magnitude sqrt(x^2+y^2+z^2): running 0.85, walking 0.80,
\* sitting 0.90, otherwise standing 0.75.
C21_FallbackLadderOnMagnitude ==
    FallbackReturned =>
        LET mag == MagnitudeOf(last.request.accelerometer_data)
        IN  [activity |-> last.value.predicted_activity,
             confidence |-> last.value.confidence]
                = Ladder(np_mean(mag), np_std(mag))

\* the gyroscope carries no samples
NoGyroscope(gyroscope_data) ==
    \A axis \in DOMAIN gyroscope_data : gyroscope_data[axis] = <<>>

\* mean, std, max and min of one axis
AxisStats(samples) ==
    LET data == np_array(samples)
    IN  <<np_mean(data), np_std(data), np_max(data), np_min(data)>>

\* C23 (as claimed): for a request without gyroscope samples _extract_features
\* returns 14 scalar features, the mean, std, max and min of each accelerometer
\* axis followed by the mean and std of the accelerometer magnitude; gyroscope
\* statistics are part of the vector only when gyroscope samples are present.
C23_FourteenFeaturesWithoutGyroscope ==
    (last.route = "_extract_features" /\ NoGyroscope(last.request.gyroscope_data)) =>
        LET acc == last.request.accelerometer_data
            mag == MagnitudeOf(acc)
        IN  /\ Len(last.value) = 14
            /\ last.value = AxisStats(acc.x) \o AxisStats(acc.y) \o AxisStats(acc.z)
                            \o <<np_mean(mag), np_std(mag)>>

\* C29: on the path without a classifier the label and the intensity tier of a
\* detect_activity result agree: running comes with high, walking with
\* moderate or high, sitting with low, and the tier is never unknown.
C29_LabelAndIntensityConsistent ==
    FallbackReturned =>
        LET activity == last.value.predicted_activity
            intensity == last.value.intensity_level
        IN  /\ intensity \in {"low", "moderate", "high"}
            /\ activity = "running" => intensity = "high"
            /\ activity = "walking" => intensity \in {"moderate", "high"}
            /\ activity = "sitting" => intensity = "low"

\* a window labelled walking whose intensity is high
C29_Witness ==
    /\ FallbackReturned
    /\ last.value.predicted_activity = "walking"
    /\ last.value.intensity_level = "high"

\* the vector detect_activity passes to the fitted scaler has as many features
\* as the data the scaler was fitted on, and the call does not fail
C25_DetectFeatureCount ==
    (last.route = "detect_activity" /\ model = "fitted") =>
        /\ Len(FeatureCalls[last.request]) = activity_n_features
        /\ "error" \notin DOMAIN last

\* the same for the vector forecast_risk passes to the fitted scaler of the
\* first category
C25_ForecastFeatureCount ==
    (last.route = ForecastRoute /\ risk_models # {}
                                /\ first_key(risk_models) \in risk_fitted) =>
        /\ Len(risk_extract_features(last.request.health_metrics,
                                     last.request.lifestyle_data)) = risk_n_features
        /\ last.status = 200

\* C25 (as claimed): whenever the classifier is fitted, the vector
\* detect_activity passes to the scaler has as many features as the data the
\* scaler was fitted on, and the call does not fail on the feature count; the
\* same for the vector forecast_risk passes to its scalers.
C25_FeatureCountMatchesFit ==
    C25_DetectFeatureCount /\ C25_ForecastFeatureCount

-----------------------------------------------------------------------------
(* Properties of the risk rules *)

\* a _mock_risk_calculation call that returned
MockRiskReturned ==
    last.route = "_mock_risk_calculation" /\ "value" \in DOMAIN last

\* 0.10 plus the documented increments, clamped, in thousandths; the +0.05 age
\* band runs from middle_from to 65, and the body mass index is the double the
\* code computes
DocumentedRisk(h, l, middle_from) ==
    LET age == IF l.age > 65 THEN 100
               ELSE IF l.age >= middle_from THEN 50 ELSE 0
        pressure == IF h.blood_pressure_systolic > 140 THEN 150
                    ELSE IF h.blood_pressure_systolic > 130 THEN 80 ELSE 0
        mass == IF float_gt(bmi(h.weight, h.height), float_of(30)) THEN 120
                ELSE IF float_gt(bmi(h.weight, h.height), float_of(25)) THEN 60 ELSE 0
        activity == IF l.physical_activity_level = "sedentary" THEN 80
                    ELSE IF l.physical_activity_level \in {"active", "very_active"}
                    THEN 0 - 50 ELSE 0
    IN  clamp(0, 1000, 100 + age + pressure + mass + activity)

\* C22 (amended): the fallback risk score is 0.10 plus the fixed increments,
\* clamped to [0,1], to within the rounding of the additions in double
\* precision, where the +0.05 age increment applies to ages above 45 up to 65
\* (45 itself adds nothing).
C22_FallbackIncrements ==
    MockRiskReturned =>
        near(last.value,
             DocumentedRisk(last.request.input.health_metrics,
                            last.request.input.lifestyle_data, 46),
             1000)

\* age 45, systolic 140, BMI 25 and active: only +0.08 and -0.05 apply
C22_Witness ==
    /\ MockRiskReturned
    /\ last.request.input.lifestyle_data.age = 45
    /\ last.request.input.health_metrics.blood_pressure_systolic = 140
    /\ last.request.input.health_metrics.weight = 100
    /\ last.request.input.health_metrics.height = 200
    /\ last.request.input.lifestyle_data.physical_activity_level = "active"
    /\ near(last.value, 130, 1000)

\* C22 (as claimed): the +0.05 age increment applies from 45 to 65 inclusive.
C22_FallbackIncrementsFrom45 ==
    MockRiskReturned =>
        near(last.value,
             DocumentedRisk(last.request.input.health_metrics,
                            last.request.input.lifestyle_data, 45),
             1000)

\* a call of one of the two advisory rules that returned
AdviceReturned ==
    /\ last.route \in {"_identify_risk_factors", "_generate_recommendations"}
    /\ "value" \in DOMAIN last

\* the factors flagged and the recommendation categories produced for the
\* input of the call in last
FlaggedFactors ==
    LET v == IF last.route = "_identify_risk_factors" THEN last.value
             ELSE IdentifyCalls[last.request].value
    IN  {v[i].factor : i \in 1..Len(v)}

RecommendedCategories ==
    LET v == IF last.route = "_generate_recommendations" THEN last.value
             ELSE RecommendationCalls[last.request, CHOOSE d \in RiskDraws : TRUE].value
    IN  {v[i].category : i \in 1..Len(v)}

\* C24 (amended): each risk-factor rule fires on the upper tier of the check
\* whose lower tier fires the matching recommendation rule: hypertension on
\* systolic > 140 and the cardiovascular recommendation on > 130, obesity on
\* BMI > 30 and weight_management on BMI > 25, physical_inactivity on sedentary
\* and physical_activity on sedentary or light; so every flagged factor comes
\* with its recommendation.
C24_FactorImpliesRecommendation ==
    AdviceReturned =>
        LET h == last.request.health_metrics
            l == last.request.lifestyle_data
        IN  /\ "hypertension" \in FlaggedFactors <=> h.blood_pressure_systolic > 140
            /\ "cardiovascular" \in RecommendedCategories
                  <=> h.blood_pressure_systolic > 130
            /\ "obesity" \in FlaggedFactors <=> float_gt(bmi(h.weight, h.height), float_of(30))
            /\ "weight_management" \in RecommendedCategories
                  <=> float_gt(bmi(h.weight, h.height), float_of(25))
            /\ "physical_inactivity" \in FlaggedFactors
                  <=> l.physical_activity_level = "sedentary"
            /\ "physical_activity" \in RecommendedCategories
                  <=> l.physical_activity_level \in {"sedentary", "light"}
            /\ "hypertension" \in FlaggedFactors => "cardiovascular" \in RecommendedCategories
            /\ "obesity" \in FlaggedFactors => "weight_management" \in RecommendedCategories
            /\ "physical_inactivity" \in FlaggedFactors
                  => "physical_activity" \in RecommendedCategories

\* systolic 140, BMI 30 and light activity: all three recommendations, no
\* factor but age
C24_Witness ==
    /\ last.route = "_generate_recommendations"
    /\ "value" \in DOMAIN last
    /\ last.request.health_metrics.blood_pressure_systolic = 140
    /\ last.request.health_metrics.weight = 120
    /\ last.request.lifestyle_data.physical_activity_level = "light"
    /\ last.request.lifestyle_data.age = 66
    /\ RecommendedCategories = {"cardiovascular", "weight_management", "physical_activity"}
    /\ FlaggedFactors = {"age"}

\* C24 (as claimed): each factor is flagged exactly when its recommendation is
\* produced.
C24_FactorExactlyWhenRecommendation ==
    AdviceReturned =>
        /\ "hypertension" \in FlaggedFactors <=> "cardiovascular" \in RecommendedCategories
        /\ "obesity" \in FlaggedFactors <=> "weight_management" \in RecommendedCategories
        /\ "physical_inactivity" \in FlaggedFactors
              <=> "physical_activity" \in RecommendedCategories

\* the names of the interventions of a suggest_interventions result
InterventionNames(v) == {v.interventions[i].name : i \in 1..Len(v.interventions)}

\* C28: suggest_interventions and the recommendation rules fire on the same
\* conditions: DASH Diet exactly with the cardiovascular recommendation,
\* Calorie Restriction exactly with weight_management, the Progressive Walking
\* Program exactly with physical_activity, and both lists have the same length.
C28_InterventionsFollowRecommendations ==
    (last.route = "suggest_interventions" /\ "value" \in DOMAIN last) =>
        LET recs == RecommendationCalls[last.request, CHOOSE d \in RiskDraws : TRUE].value
            categories == {recs[i].category : i \in 1..Len(recs)}
            names == InterventionNames(last.value)
        IN  /\ "DASH Diet" \in names <=> "cardiovascular" \in categories
            /\ "Calorie Restriction" \in names <=> "weight_management" \in categories
            /\ "Progressive Walking Program" \in names <=> "physical_activity" \in categories
            /\ Len(last.value.interventions) = Len(recs)
            /\ last.value.total_count = Len(recs)

\* systolic 131, BMI 25 and light activity: two interventions, none for weight
C28_Witness ==
    /\ last.route = "suggest_interventions"
    /\ "value" \in DOMAIN last
    /\ last.request.health_metrics.blood_pressure_systolic = 131
    /\ last.request.health_metrics.weight = 100
    /\ last.request.lifestyle_data.physical_activity_level = "light"
    /\ InterventionNames(last.value) = {"DASH Diet", "Progressive Walking Program"}

-----------------------------------------------------------------------------
(* Properties of the conversation store *)

DeleteRoute == "DELETE /chat/conversation/{id}"

\* C27: delete_conversation(c) removes conversation c and leaves every other
\* conversation as it was; when c is not in the store it raises nothing and
\* leaves the whole store as it was, so a second delete changes nothing.
C27_DeleteRemovesOnlyThat ==
    [][(last'.route = DeleteRoute /\ now' = now) =>
          LET c == last'.request.conversation_id
          IN  /\ last'.status = 200
              /\ DOMAIN conversations' = DOMAIN conversations \ {c}
              /\ \A d \in DOMAIN conversations' : conversations'[d] = conversations[d]
              /\ c \notin DOMAIN conversations => conversations' = conversations]_vars

\* a conversation was deleted while another one, with a logged call, stays
C27_Witness ==
    /\ last.route = DeleteRoute
    /\ last.request.conversation_id \in Deleted
    /\ \E d \in DOMAIN conversations : Len(conversations[d].messages) >= 2

\* C30 (as claimed): the context metadata process_message echoes for an open
\* conversation is that of the context the conversation was created with, and
\* the echoed personality and expertise are those of the echoed context_type,
\* which is one of the four fixed contexts.
C30_EchoIsConversationContext ==
    (/\ last.route = "POST /chat/"
     /\ last.status = 200
     /\ last.body.data.conversation_id \in DOMAIN conversations) =>
        LET echoed == last.body.data.context
            created == conversations[last.body.data.conversation_id].context
        IN  /\ echoed.context_type = created
            /\ echoed.context_type \in DOMAIN contexts
            /\ echoed.personality = contexts[echoed.context_type].personality
            /\ echoed.expertise = contexts[echoed.context_type].expertise

\* the log of conversation c is pairs of a user message and the reply
\* generated for it
PairedLog(c) ==
    LET m == conversations[c].messages
    IN  /\ Len(m) % 2 = 0
        /\ \A i \in 1..(Len(m) \div 2) :
             /\ m[2 * i - 1].is_user
             /\ ~m[2 * i].is_user
             /\ \E context \in InputContexts :
                  m[2 * i].message = generate_response(m[2 * i - 1].message, context, c).message

\* one step leaves the log of conversation c as it is, or appends to it one
\* user message immediately followed by the reply generated for it
AppendsPair(c) ==
    LET m == conversations[c].messages
        n == conversations'[c].messages
    IN  \/ n = m
        \/ /\ Len(n) = Len(m) + 2
           /\ SubSeq(n, 1, Len(m)) = m
           /\ n[Len(m) + 1].is_user
           /\ ~n[Len(m) + 2].is_user
           /\ \E context \in InputContexts :
                n[Len(m) + 2].message =
                    generate_response(n[Len(m) + 1].message, context, c).message

\* C26: with several chat requests on the event loop, no process_message call
\* is parked between storing its user message and storing its reply, so no
\* other request (a delete_conversation included) runs between the two
\* appends: in every reachable log each user message is immediately followed
\* by the reply generated for it, every step of the loop appends to a log a
\* whole pair or nothing, and a conversation is removed only by the step of a
\* delete handler, between two such pairs.
C26_CallsRunUninterrupted ==
    /\ [](/\ \A task \in tasks : task.pc = "accepted"
          /\ \A c \in DOMAIN conversations : PairedLog(c))
    /\ [][/\ \A c \in DOMAIN conversations \cap DOMAIN conversations' : AppendsPair(c)
          /\ \A c \in DOMAIN conversations \ DOMAIN conversations' :
                \E task \in tasks \ tasks' :
                   /\ task.route = DeleteRoute
                   /\ task.request.conversation_id = c]_vars

\* two equal requests on one open conversation were in flight together: the
\* call of one returned, its pair appended to the log, while the handler of
\* the other was still waiting on the event loop
C26_Witness ==
    /\ last.route = "POST /chat/"
    /\ last.status = 200
    /\ last.request.conversation_id \in DOMAIN conversations
    /\ Len(conversations[last.request.conversation_id].messages) >= 4
    /\ \E task \in tasks :
         /\ task.route = "POST /chat/"
         /\ task.request = last.request

\* a call on an open conversation returned while a delete of that conversation
\* was waiting on the event loop
C26_DeleteWaited ==
    /\ last.route = "POST /chat/"
    /\ last.status = 200
    /\ last.body.data.conversation_id \in DOMAIN conversations
    /\ Len(conversations[last.body.data.conversation_id].messages) >= 2
    /\ \E task \in tasks :
         /\ task.route = DeleteRoute
         /\ task.request.conversation_id = last.body.data.conversation_id

====
